---------------------------- MODULE Spec2Model ----------------------------
(***************************************************************************)
(* Model of the substitution engine of enum_trait (src/enum_trait/src/     *)
(* subst.rs): the ParamSubst visitor, the renaming machinery built on it   *)
(* and the closure conversion ("indirection") algorithm.                   *)
(*                                                                         *)
(* Syntax trees are records tagged by the field k:                         *)
(*   Type      TPath(qself, lead, segs) | TTuple(elems)                    *)
(*   Expr      EPath(qself, lead, segs) | ECall(func, args) | EBin(l, r)   *)
(*             | ELit(v) | EBlock(id, ty, init, body)                      *)
(*             where EBlock is  { let id: ty = init; body }                *)
(*   segment   [id, args]  (args = <<>> is PathArguments::None)            *)
(*   GenericArgument  GLife(id) | GType(ty) | GConst(ex)                   *)
(*   GenericParam     Lifetime(id, bounds) | Type(id, bounds)              *)
(*                    | Const(id, ty)                                      *)
(*   TypeParamBound   BTrait(segs) | BLife(id)                             *)
(*   Generics  [params]                                                    *)
(*   TypeLevelExpr<E>  E | Match(types, arms), arm = [sels, body],         *)
(*             selector = Specific(id, generics) | Default                 *)
(* A visitor takes the ParamSubst S = [param, arg, result] and a node and  *)
(* returns [n |-> the node afterwards, result |-> S.result afterwards].    *)
(* Where the source binds the result of a call that is used several times  *)
(* (let x = e; ...), the model writes  Only({... x ... : x \in {e}}).       *)
(***************************************************************************)
EXTENDS Integers, Sequences, FiniteSets, TLC

\* The traversal is mutually recursive; every recursive visit of a child
\* node goes through VisitKind, the dispatch on the child's kind.
RECURSIVE VisitKind(_, _, _)

--------------------------------------------------------------------------
(* Results and options                                                     *)

\* the element of a set of one element
Only(S) ==
  CHOOSE x \in S : TRUE

NoNode ==
  [k |-> "None"]

OkResult ==
  [ok |-> TRUE, spans |-> <<>>, err |-> ""]

ErrResult(msg) ==
  [ok |-> FALSE, spans |-> <<>>, err |-> msg]

OkSome(v) ==
  [ok |-> TRUE, some |-> TRUE, v |-> v, err |-> ""]

OkNone ==
  [ok |-> TRUE, some |-> FALSE, v |-> NoNode, err |-> ""]

ErrOpt(msg) ==
  [ok |-> FALSE, some |-> FALSE, v |-> NoNode, err |-> msg]

\* ParamSubst::new
ParamSubst_new(param, arg) ==
  [param |-> param, arg |-> arg, result |-> OkResult]

WithResult(S, r) ==
  [S EXCEPT !.result = r]

\* if let Ok(result) = &mut self.result { result.push(span) }
push_span(r, span) ==
  IF r.ok THEN [r EXCEPT !.spans = Append(@, span)] ELSE r

\* if self.result.is_ok() { self.result = Err(error) }
set_error(r, msg) ==
  IF r.ok THEN ErrResult(msg) ELSE r

--------------------------------------------------------------------------
(* Node constructors                                                       *)

Seg(id, args) ==
  [id |-> id, args |-> args]

TPath(qself, lead, segs) ==
  [k |-> "TPath", qself |-> qself, lead |-> lead, segs |-> segs]

TTuple(elems) ==
  [k |-> "TTuple", elems |-> elems]

EPath(qself, lead, segs) ==
  [k |-> "EPath", qself |-> qself, lead |-> lead, segs |-> segs]

ECall(func, args) ==
  [k |-> "ECall", func |-> func, args |-> args]

EBin(l, r) ==
  [k |-> "EBin", l |-> l, r |-> r]

ELit(v) ==
  [k |-> "ELit", v |-> v]

EBlock(id, ty, init, body) ==
  [k |-> "EBlock", id |-> id, ty |-> ty, init |-> init, body |-> body]

GLife(id) ==
  [k |-> "GLife", id |-> id]

GType(ty) ==
  [k |-> "GType", ty |-> ty]

GConst(ex) ==
  [k |-> "GConst", ex |-> ex]

LifetimeParam(id, bounds) ==
  [k |-> "Lifetime", id |-> id, bounds |-> bounds]

TypeParam(id, bounds) ==
  [k |-> "Type", id |-> id, bounds |-> bounds]

ConstParam(id, ty) ==
  [k |-> "Const", id |-> id, ty |-> ty]

BTrait(segs) ==
  [k |-> "BTrait", segs |-> segs]

BLife(id) ==
  [k |-> "BLife", id |-> id]

Generics(params) ==
  [params |-> params]

Specific(id, generics) ==
  [k |-> "Specific", id |-> id, generics |-> generics]

DefaultSel ==
  [k |-> "Default"]

Arm(sels, body) ==
  [sels |-> sels, body |-> body]

Match(types, arms) ==
  [k |-> "Match", types |-> types, arms |-> arms]

\* the type  id  and the type  id<args>
TId(id) ==
  TPath(<<>>, FALSE, <<Seg(id, <<>>)>>)

TGen(id, args) ==
  TPath(<<>>, FALSE, <<Seg(id, args)>>)

EId(id) ==
  EPath(<<>>, FALSE, <<Seg(id, <<>>)>>)

TestOnly ==
  [k |-> "TestOnly"]

ArgParam(p) ==
  [k |-> "Param", p |-> p]

ArgArg(a) ==
  [k |-> "Arg", a |-> a]

--------------------------------------------------------------------------
(* helpers.rs                                                              *)

\* syn Path::is_ident: no leading colon, one segment, no arguments
path_is_ident(path, ident) ==
  /\ ~path.lead
  /\ Len(path.segs) = 1
  /\ path.segs[1].args = <<>>
  /\ path.segs[1].id = ident

type_is_ident(ty, ident) ==
  /\ ty.k = "TPath"
  /\ ty.qself = <<>>
  /\ path_is_ident(ty, ident)

ident_with_suffix(ident, suffix) ==
  ident \o suffix

--------------------------------------------------------------------------
(* ParamSubstArg                                                           *)

get_lifetime_eager(arg) ==
  CASE arg.k = "TestOnly" -> OkSome("static")
    [] arg.k = "Param" ->
         IF arg.p.k = "Lifetime" THEN OkSome(arg.p.id)
         ELSE ErrOpt("non-lifetime arg for lifetime param")
    [] arg.k = "Arg" ->
         IF arg.a.k = "GLife" THEN OkSome(arg.a.id)
         ELSE ErrOpt("non-lifetime arg for lifetime param")

get_lifetime(arg) ==
  CASE arg.k = "TestOnly" -> OkNone
    [] arg.k = "Param" ->
         IF arg.p.k = "Lifetime" THEN OkSome(arg.p.id)
         ELSE ErrOpt("non-lifetime arg for lifetime param")
    [] arg.k = "Arg" ->
         IF arg.a.k = "GLife" THEN OkSome(arg.a.id)
         ELSE ErrOpt("non-lifetime arg for lifetime param")

get_expr(arg) ==
  CASE arg.k = "TestOnly" -> OkNone
    [] arg.k = "Param" ->
         IF arg.p.k = "Const" THEN OkSome(EId(arg.p.id))
         ELSE ErrOpt("non-const arg for const param")
    [] arg.k = "Arg" ->
         IF arg.a.k = "GConst" THEN OkSome(arg.a.ex)
         ELSE ErrOpt("non-const arg for const param")

get_type_lenient(arg) ==
  CASE arg.k = "TestOnly" -> OkNone
    [] arg.k = "Param" ->
         IF arg.p.k = "Type" THEN OkSome(TId(arg.p.id)) ELSE OkNone
    [] arg.k = "Arg" ->
         IF arg.a.k = "GType" THEN OkSome(arg.a.ty) ELSE OkNone

get_type(arg) ==
  CASE arg.k = "TestOnly" -> OkNone
    [] arg.k = "Param" ->
         IF arg.p.k = "Type" THEN OkSome(TId(arg.p.id))
         ELSE ErrOpt("non-type arg for type param")
    [] arg.k = "Arg" ->
         IF arg.a.k = "GType" THEN OkSome(arg.a.ty)
         ELSE ErrOpt("non-type arg for type param")

--------------------------------------------------------------------------
(* ParamSubst                                                              *)

\* the visit of the child st.n[field] (a field of a record or an element of
\* a sequence) in place; st.result is self.result
Put(node, field, r) ==
  [n |-> [node EXCEPT ![field] = r.n], result |-> r.result]

VisitField(kind, S, st, field) ==
  Put(st.n, field, VisitKind(kind, WithResult(S, st.result), st.n[field]))

\* the for loops of the traversal: the elements in order, threading result
RECURSIVE VisitFrom(_, _, _, _)
VisitFrom(kind, S, st, idx) ==
  IF idx > Len(st.n) THEN st
  ELSE VisitFrom(kind, S, VisitField(kind, S, st, idx), idx + 1)

VisitSeq(kind, S, seq) ==
  VisitFrom(kind, S, [n |-> seq, result |-> S.result], 1)

\* ParamSubst::substituted: the result afterwards
substituted(S, a, span) ==
  IF a.ok THEN push_span(S.result, span) ELSE set_error(S.result, a.err)

\* ParamSubst::subst: replaces the node when the argument is Ok(Some(_))
subst(S, node, a, span) ==
  [n |-> IF a.ok /\ a.some THEN a.v ELSE node,
   result |-> substituted(S, a, span)]

unskipped_qualified_path(path, ty) ==
  [path EXCEPT !.qself = <<ty>>, !.lead = TRUE]

\* Path with its first segment dropped, under the qualified self type ty
qualified_path(path, ty) ==
  [path EXCEPT !.qself = <<ty>>, !.lead = TRUE, !.segs = Tail(@)]

\* ParamSubst::subst_in_path on the (qself, path) of a TPath or EPath;
\* hit is the returned bool
subst_in_path(S, path) ==
  IF /\ path.qself = <<>>
     /\ ~path.lead
     /\ S.param.k = "Type"
     /\ Len(path.segs) >= 1
     /\ path.segs[1].args = <<>>
     /\ path.segs[1].id = S.param.id
  THEN
    LET arg == S.arg
        r1 == CASE arg.k = "TestOnly" -> [n |-> path, result |-> S.result]
                [] arg.k = "Param" ->
                     IF arg.p.k = "Type"
                     THEN [n |-> [path EXCEPT !.segs[1].id = arg.p.id],
                           result |-> S.result]
                     ELSE [n |-> path,
                           result |-> set_error(S.result, "non-type arg for type param")]
                [] arg.k = "Arg" ->
                     IF arg.a.k = "GType"
                     THEN [n |-> qualified_path(path, arg.a.ty),
                           result |->
                             IF qualified_path(path, arg.a.ty).segs = <<>>
                             THEN ErrResult("cannot replace single-segment path with type arg")
                             ELSE S.result]
                     ELSE [n |-> path,
                           result |-> set_error(S.result, "non-type arg for type param")]
    IN [n |-> r1.n, result |-> push_span(r1.result, "path"), hit |-> TRUE]
  ELSE [n |-> path, result |-> S.result, hit |-> FALSE]

\* ParamSubst::visit_lifetime_mut; a lifetime is its identifier
visit_lifetime_mut(S, i) ==
  IF S.param.k = "Lifetime" /\ i = S.param.id
  THEN subst(S, i, get_lifetime(S.arg), "lifetime")
  ELSE [n |-> i, result |-> S.result]

\* syn visit_path_mut: every segment's generic arguments
visit_path_segment_mut(S, seg) ==
  LET v == VisitSeq("generic_argument", S, seg.args)
  IN [n |-> [seg EXCEPT !.args = v.n], result |-> v.result]

\* syn visit_type_path_mut / visit_expr_path_mut: qself, then the path
visit_qself_and_path(S, path) ==
  LET q == VisitSeq("type", S, path.qself)
      s == VisitSeq("path_segment", WithResult(S, q.result), path.segs)
  IN [n |-> [path EXCEPT !.qself = q.n, !.segs = s.n], result |-> s.result]

\* ParamSubst::visit_type_path_mut and ParamSubst::visit_expr_path_mut
visit_path_node_mut(S, i) ==
  LET r == subst_in_path(S, i)
  IN IF r.hit THEN [n |-> r.n, result |-> r.result]
     ELSE visit_qself_and_path(S, i)

\* syn visit_block_mut on  { let id: ty = init; body }
visit_block_mut(S, b) ==
  LET t == VisitKind("type", S, b.ty)
      i == VisitKind("expr", WithResult(S, t.result), b.init)
      e == VisitKind("expr", WithResult(S, i.result), b.body)
  IN [n |-> [b EXCEPT !.ty = t.n, !.init = i.n, !.body = e.n],
      result |-> e.result]

\* syn visit_expr_mut (the default traversal)
default_visit_expr_mut(S, i) ==
  CASE i.k = "EPath" -> visit_path_node_mut(S, i)
    [] i.k = "ECall" ->
         LET f == VisitKind("expr", S, i.func)
             a == VisitSeq("expr", WithResult(S, f.result), i.args)
         IN [n |-> [i EXCEPT !.func = f.n, !.args = a.n], result |-> a.result]
    [] i.k = "EBin" ->
         LET l == VisitKind("expr", S, i.l)
             r == VisitKind("expr", WithResult(S, l.result), i.r)
         IN [n |-> [i EXCEPT !.l = l.n, !.r = r.n], result |-> r.result]
    [] i.k = "EBlock" -> visit_block_mut(S, i)
    [] OTHER -> [n |-> i, result |-> S.result]

let_block_self_bound(const_param, arg, i) ==
  EBlock(const_param.id, const_param.ty, EId(const_param.id), i)

\* the block  { let #ident: #ty = #arg; #i }
let_block(const_param, arg, i) ==
  EBlock(const_param.id, const_param.ty, arg, i)

\* ParamSubst::visit_expr_mut
visit_expr_mut(S, i) ==
  IF S.param.k = "Const"
  THEN IF i.k = "EPath"
       THEN IF i.qself = <<>> /\ path_is_ident(i, S.param.id)
            THEN subst(S, i, get_expr(S.arg), "expr")
            ELSE default_visit_expr_mut(S, i)
       ELSE IF S.arg.k # "TestOnly"
            THEN LET a == get_expr(S.arg)
                 IN [n |-> IF a.ok /\ a.some THEN let_block(S.param, a.v, i) ELSE i,
                     result |-> substituted(S, a, "expr")]
            ELSE default_visit_expr_mut(S, i)
  ELSE default_visit_expr_mut(S, i)

\* syn visit_type_mut (the default traversal)
default_visit_type_mut(S, i) ==
  CASE i.k = "TPath" -> visit_path_node_mut(S, i)
    [] i.k = "TTuple" ->
         LET e == VisitSeq("type", S, i.elems)
         IN [n |-> [i EXCEPT !.elems = e.n], result |-> e.result]
    [] OTHER -> [n |-> i, result |-> S.result]

\* ParamSubst::visit_type_mut
visit_type_mut(S, i) ==
  IF S.param.k = "Type" /\ type_is_ident(i, S.param.id)
  THEN subst(S, i, get_type(S.arg), "type")
  ELSE default_visit_type_mut(S, i)

\* ParamSubst::visit_generic_argument_mut
visit_generic_argument_mut(S, i) ==
  IF i.k = "GType" /\ S.param.k = "Const" /\ type_is_ident(i.ty, S.param.id)
  THEN LET a == get_expr(S.arg)
       IN [n |-> IF a.ok /\ a.some THEN GConst(a.v) ELSE i,
           result |-> substituted(S, a, "generic_argument")]
  ELSE CASE i.k = "GLife" ->
              LET l == visit_lifetime_mut(S, i.id)
              IN [n |-> [i EXCEPT !.id = l.n], result |-> l.result]
         [] i.k = "GType" ->
              LET t == VisitKind("type", S, i.ty)
              IN [n |-> [i EXCEPT !.ty = t.n], result |-> t.result]
         [] i.k = "GConst" ->
              LET e == VisitKind("expr", S, i.ex)
              IN [n |-> [i EXCEPT !.ex = e.n], result |-> e.result]

\* syn visit_type_param_bound_mut: a trait bound's path is visited with
\* visit_path_mut, a lifetime bound with visit_lifetime_mut
visit_type_param_bound_mut(S, b) ==
  IF b.k = "BTrait"
  THEN LET s == VisitSeq("path_segment", S, b.segs)
       IN [n |-> [b EXCEPT !.segs = s.n], result |-> s.result]
  ELSE LET l == visit_lifetime_mut(S, b.id)
       IN [n |-> [b EXCEPT !.id = l.n], result |-> l.result]

\* ParamSubst::visit_lifetime_param_mut: the bounds only
visit_lifetime_param_mut(S, i) ==
  LET b == VisitSeq("lifetime", S, i.bounds)
  IN [n |-> [i EXCEPT !.bounds = b.n], result |-> b.result]

\* syn visit_generic_param_mut
visit_generic_param_mut(S, i) ==
  CASE i.k = "Lifetime" -> visit_lifetime_param_mut(S, i)
    [] i.k = "Type" ->
         LET b == VisitSeq("type_param_bound", S, i.bounds)
         IN [n |-> [i EXCEPT !.bounds = b.n], result |-> b.result]
    [] i.k = "Const" ->
         LET t == VisitKind("type", S, i.ty)
         IN [n |-> [i EXCEPT !.ty = t.n], result |-> t.result]

\* syn visit_generics_mut
visit_generics_mut(S, generics) ==
  Only({[n |-> [generics EXCEPT !.params = p.n], result |-> p.result] :
          p \in {VisitSeq("generic_param", S, generics.params)}})


--------------------------------------------------------------------------
(* Name conflicts                                                          *)

param_ident_conflict(param1, param2) ==
  param1.id = param2.id

param_name_conflict(param1, param2) ==
  IF param1.k = "Lifetime" \/ param2.k = "Lifetime"
  THEN param1.k = "Lifetime" /\ param2.k = "Lifetime" /\ param1.id = param2.id
  ELSE param1.id = param2.id

param_generics_name_conflict(param, generics) ==
  \E i \in 1..Len(generics.params) :
     param_name_conflict(param, generics.params[i])

--------------------------------------------------------------------------
(* Substitutable                                                           *)

\* Substitutable::substitute_impl: the implementation for the node's kind
substitute_impl(kind, node, S) ==
  VisitKind(kind, S, node)

\* Substitutable::get_param_references with the node it leaves behind:
\* Ok(spans) or Err, and the node afterwards
get_param_references_mut(kind, node, param) ==
  Only({[n |-> r.n, ok |-> r.result.ok, spans |-> r.result.spans,
         err |-> r.result.err] :
          r \in {substitute_impl(kind, node, ParamSubst_new(param, TestOnly))}})

\* Substitutable::get_param_references
get_param_references(kind, node, param) ==
  substitute_impl(kind, node, ParamSubst_new(param, TestOnly)).result

\* Substitutable::references_param (the test-only mode never fails here)
references_param(kind, node, param) ==
  get_param_references(kind, node, param).spans # <<>>

\* Substitutable::substitute: Ok(changed) or Err, and the node afterwards
substitute(kind, node, param, arg) ==
  Only({[n |-> r.n, ok |-> r.result.ok, occurred |-> r.result.spans # <<>>,
         err |-> r.result.err] :
          r \in {substitute_impl(kind, node, ParamSubst_new(param, arg))}})

--------------------------------------------------------------------------
(* Renaming                                                                *)

\* The conflict predicates the callers pass as closures:
\*   Param(p)       param_name_conflict(param, p)
\*   Arg(a)         a.references_param(param)
\*   Generics(g)    param_generics_name_conflict(param, g)
\*   ExprParams(ps) some parameter of the sequence ps conflicts
\*   Args(args)     some argument of the sequence args references param
conflicting(pred, param) ==
  CASE pred.k = "Param" -> param_name_conflict(param, pred.p)
    [] pred.k = "Arg" -> references_param("GenericArgument", pred.a, param)
    [] pred.k = "Generics" -> param_generics_name_conflict(param, pred.g)
    [] pred.k = "ExprParams" ->
         \E i \in 1..Len(pred.ps) : param_name_conflict(param, pred.ps[i])
    [] pred.k = "Args" ->
         \E i \in 1..Len(pred.args) :
            references_param("GenericArgument", pred.args[i], param)

\* add_underscore_suffix that leaves the name as it is
keep_ident(param) ==
  param

add_underscore_suffix(param) ==
  [param EXCEPT !.id = ident_with_suffix(@, "_")]

RECURSIVE add_underscores_loop(_, _)
add_underscores_loop(param, pred) ==
  LET next == add_underscore_suffix(param)
  IN IF conflicting(pred, next) THEN add_underscores_loop(next, pred) ELSE next

\* add_underscores_if_conflicting: Some(old_param) and the renamed param,
\* or None
add_underscores_if_conflicting(param, pred) ==
  IF conflicting(pred, param)
  THEN [some |-> TRUE, old |-> param, param |-> add_underscores_loop(param, pred)]
  ELSE [some |-> FALSE, old |-> param, param |-> param]

\* rename_conflicting_params, the renaming of one parameter: subst (old
\* name -> new parameter) visits the generics, then substitute applies it
\* to body (of Substitutable kind E); the pair [generics, body] afterwards
rename_param(generics, E, body, param_idx, au) ==
  LET S == ParamSubst_new(au.old, ArgParam(au.param))
      pair == [generics |-> [generics EXCEPT !.params[param_idx] = au.param],
               body |-> body]
  IN VisitField(E, S,
                VisitField("Generics", S, [n |-> pair, result |-> S.result],
                           "generics"),
                "body")

\* rename_conflicting_params, the loop from param_idx on
RECURSIVE rename_conflicting_params_from(_, _, _, _, _, _)
rename_conflicting_params_from(generics, pred, E, body, param_idx, renamed) ==
  IF param_idx > Len(generics.params)
  THEN [ok |-> TRUE, renamed |-> renamed, generics |-> generics,
        body |-> body, err |-> ""]
  ELSE Only({
    IF ~au.some
    THEN rename_conflicting_params_from(generics, pred, E, body,
                                        param_idx + 1, renamed)
    ELSE Only({
      IF ~v.result.ok
      THEN [ok |-> FALSE, renamed |-> renamed, generics |-> v.n.generics,
            body |-> v.n.body, err |-> v.result.err]
      ELSE rename_conflicting_params_from(v.n.generics, pred, E, v.n.body,
                                          param_idx + 1, TRUE) :
      v \in {rename_param(generics, E, body, param_idx, au)}}) :
    au \in {add_underscores_if_conflicting(generics.params[param_idx], pred)}})

rename_conflicting_params(generics, pred, E, body) ==
  rename_conflicting_params_from(generics, pred, E, body, 1, FALSE)

\* add_underscores_to_all_params: the conflict set is a copy of the list
\* itself, and the substitute closure does nothing
add_underscores_to_all_params(generics) ==
  rename_conflicting_params(generics, [k |-> "Generics", g |-> generics],
                            "Unit", NoNode)

\* substitute_all / substitute_all_params, after the loop: Ok without the
\* check for a remaining argument
args_iter_unchecked(node, params, args, what, changed) ==
  [ok |-> TRUE, n |-> node, substituted |-> changed, err |-> ""]

\* substitute_all / substitute_all_params, after the loop:
\* args_iter.next() must be None; what is "argument" or "parameter"
args_iter_exhausted(node, params, args, what, changed) ==
  IF Len(args) > Len(params)
  THEN [ok |-> FALSE, n |-> node, substituted |-> changed,
        err |-> "superfluous " \o what]
  ELSE [ok |-> TRUE, n |-> node, substituted |-> changed, err |-> ""]

\* substitute_all / substitute_all_params, the loop over generics.params
\* from idx on; args holds ParamSubstArg values
RECURSIVE substitute_each(_, _, _, _, _, _, _)
substitute_each(E, node, params, args, what, idx, changed) ==
  IF idx > Len(params)
  THEN args_iter_exhausted(node, params, args, what, changed)
  ELSE IF idx > Len(args)
  THEN [ok |-> FALSE, n |-> node, substituted |-> changed,
        err |-> "too few " \o what \o "s"]
  ELSE Only({
    IF ~r.ok
    THEN [ok |-> FALSE, n |-> r.n, substituted |-> changed, err |-> r.err]
    ELSE substitute_each(E, r.n, params, args, what, idx + 1,
                         changed \/ r.occurred) :
    r \in {substitute(E, node, params[idx], args[idx])}})

\* substitute_all / substitute_all_params after rename_conflicting_params
\* returned rc
substitute_renamed(E, rc, args, what) ==
  IF ~rc.ok
  THEN [ok |-> FALSE, n |-> rc.body, substituted |-> rc.renamed, err |-> rc.err]
  ELSE substitute_each(E, rc.body, rc.generics.params, args, what, 1, rc.renamed)

\* Substitutable::substitute_all; args is the sequence args.args
substitute_all(E, node, generics, args) ==
  substitute_renamed(E,
    rename_conflicting_params(generics, [k |-> "Args", args |-> args], E, node),
    [i \in 1..Len(args) |-> ArgArg(args[i])], "argument")

\* Substitutable::substitute_all_params
substitute_all_params(E, node, generics, args) ==
  substitute_renamed(E,
    rename_conflicting_params(generics, [k |-> "Generics", g |-> args], E, node),
    [i \in 1..Len(args.params) |-> ArgParam(args.params[i])], "parameter")

\* rename_all_params, after the loop: Ok without the check for a
\* remaining target parameter
target_iter_unchecked(generics, target_generics) ==
  [ok |-> TRUE, generics |-> generics, err |-> ""]

\* rename_all_params, after the loop: target_iter.next() must be None
target_iter_exhausted(generics, target_generics) ==
  IF Len(target_generics.params) > Len(generics.params)
  THEN [ok |-> FALSE, generics |-> generics, err |-> "superfluous parameter"]
  ELSE [ok |-> TRUE, generics |-> generics, err |-> ""]

\* rename_all_params, the loop from param_idx on
RECURSIVE rename_all_params_from(_, _, _)
rename_all_params_from(generics, target_generics, param_idx) ==
  IF param_idx > Len(generics.params)
  THEN target_iter_exhausted(generics, target_generics)
  ELSE IF param_idx > Len(target_generics.params)
  THEN [ok |-> FALSE, generics |-> generics, err |-> "too few parameters"]
  ELSE
    LET old_param == generics.params[param_idx]
        target_param == target_generics.params[param_idx]
    IN IF old_param.k # target_param.k
       THEN [ok |-> FALSE, generics |-> generics,
             err |-> CASE old_param.k = "Lifetime" -> "lifetime parameter expected"
                       [] old_param.k = "Type" -> "type parameter expected"
                       [] old_param.k = "Const" -> "const parameter expected"]
       ELSE Only({
         IF ~v.result.ok
         THEN [ok |-> FALSE, generics |-> v.n, err |-> v.result.err]
         ELSE rename_all_params_from(v.n, target_generics, param_idx + 1) :
         v \in {visit_generics_mut(
                  ParamSubst_new(old_param, ArgParam(target_param)),
                  [generics EXCEPT !.params[param_idx].id = target_param.id])}})

\* rename_all_params
rename_all_params(generics, target_generics) ==
  Only({
    IF ~rc.ok THEN [ok |-> FALSE, generics |-> rc.generics, err |-> rc.err]
    ELSE rename_all_params_from(rc.generics, target_generics, 1) :
    rc \in {rename_conflicting_params(generics,
               [k |-> "Generics", g |-> target_generics], "Unit", NoNode)}})

--------------------------------------------------------------------------
(* Binder scopes of the visitor                                            *)

\* the predicate of subst_with_multi_generics for the real arguments
arg_conflict_pred(arg) ==
  IF arg.k = "Param" THEN [k |-> "Param", p |-> arg.p]
  ELSE [k |-> "Arg", a |-> arg.a]

\* self.visit_generics_mut(generics) on the generics of selector idx of the
\* arm st.n
visit_selector_generics(S, st, idx) ==
  Only({[n |-> [st.n EXCEPT !.sels[idx].generics = v.n], result |-> v.result] :
          v \in {visit_generics_mut(WithResult(S, st.result),
                                    st.n.sels[idx].generics)}})

\* One iteration of the loop of subst_with_multi_generics on the generics of
\* a selector that does not shadow param: rename, then visit the generics
subst_in_unshadowed_generics(S, st, idx, E) ==
  IF S.arg.k = "TestOnly"
  THEN visit_selector_generics(S, st, idx)
  ELSE visit_selector_generics(S,
         Only({[n |-> [st.n EXCEPT !.sels[idx].generics = rn.generics,
                                   !.body = rn.body],
                result |-> IF rn.ok
                           THEN IF rn.renamed
                                THEN push_span(st.result, "call_site")
                                ELSE st.result
                           ELSE set_error(st.result, rn.err)] :
                 rn \in {rename_conflicting_params(st.n.sels[idx].generics,
                           arg_conflict_pred(S.arg), E, st.n.body)}}),
         idx)

\* what the loop does with a selector whose generics shadow param: return
shadowed_visits_generics(S, st, idx) ==
  visit_selector_generics(S, st, idx)

shadowed_return(S, st, idx) ==
  st

\* ParamSubst::subst_with_multi_generics over the selectors idx.. of the arm
\* st.n (the iterator filters the Specific selectors); f visits the body;
\* st.result is self.result
RECURSIVE subst_with_multi_generics(_, _, _, _)
subst_with_multi_generics(S, st, idx, E) ==
  IF idx > Len(st.n.sels)
  THEN VisitField(E, S, st, "body")
  ELSE IF st.n.sels[idx].k = "Default"
  THEN subst_with_multi_generics(S, st, idx + 1, E)
  ELSE IF param_generics_name_conflict(S.param, st.n.sels[idx].generics)
  THEN shadowed_return(S, st, idx)
  ELSE subst_with_multi_generics(S, subst_in_unshadowed_generics(S, st, idx, E),
                                 idx + 1, E)

\* impl Substitutable for TypeLevelArm<E>
arm_substitute_impl(S, arm, E) ==
  subst_with_multi_generics(S, [n |-> arm, result |-> S.result], 1, E)

\* impl Substitutable for TypeLevelExprMatch<E>
match_substitute_impl(S, m, E) ==
  LET t == VisitSeq("type", S, m.types)
      a == VisitSeq(IF E = "TLType" THEN "arm_type" ELSE "arm_expr",
                    WithResult(S, t.result), m.arms)
  IN [n |-> [m EXCEPT !.types = t.n, !.arms = a.n], result |-> a.result]

\* The visit of one node by its kind.  The lower-case kinds are the visit
\* methods of the visitor (elements of visited sequences and child nodes);
\* the capitalised kinds are the Substitutable implementations: TLType and
\* TLExpr are TypeLevelExpr<Type> and TypeLevelExpr<Expr>, Unit is ()
VisitKind(kind, S, node) ==
  CASE kind \in {"type", "Type"} -> visit_type_mut(S, node)
    [] kind \in {"expr", "Expr"} -> visit_expr_mut(S, node)
    [] kind = "lifetime" -> visit_lifetime_mut(S, node)
    [] kind \in {"generic_argument", "GenericArgument"} ->
         visit_generic_argument_mut(S, node)
    [] kind = "path_segment" -> visit_path_segment_mut(S, node)
    [] kind = "type_param_bound" -> visit_type_param_bound_mut(S, node)
    [] kind \in {"generic_param", "GenericParam"} ->
         visit_generic_param_mut(S, node)
    [] kind = "arm_type" -> arm_substitute_impl(S, node, "TLType")
    [] kind = "arm_expr" -> arm_substitute_impl(S, node, "TLExpr")
    [] kind = "Block" -> visit_block_mut(S, node)
    [] kind = "Generics" -> visit_generics_mut(S, node)
    [] kind = "TLType" ->
         IF node.k = "Match" THEN match_substitute_impl(S, node, kind)
         ELSE visit_type_mut(S, node)
    [] kind = "TLExpr" ->
         IF node.k = "Match" THEN match_substitute_impl(S, node, kind)
         ELSE visit_expr_mut(S, node)
    [] kind = "Unit" -> [n |-> node, result |-> S.result]

--------------------------------------------------------------------------
(* Closure conversion.  A GenericsContext is the sequence of its scopes,   *)
(* innermost first: WithSelf(param) | WithGenerics(generics); the empty    *)
(* sequence is GenericsContext::Empty.  expr_params is the sequence of the *)
(* parameter vectors pushed so far, innermost scope first.                 *)

WithSelf(param) ==
  [k |-> "WithSelf", param |-> param]

WithGenerics(generics) ==
  [k |-> "WithGenerics", generics |-> generics]

\* generics.rs: the argument that names a parameter
generic_param_arg(param) ==
  CASE param.k = "Lifetime" -> GLife(param.id)
    [] param.k = "Type" -> GType(TId(param.id))
    [] param.k = "Const" -> GConst(EId(param.id))

\* expr_params[..n].iter().flatten()
RECURSIVE flatten_params(_, _)
flatten_params(expr_params, n) ==
  IF n = 0 THEN <<>>
  ELSE flatten_params(expr_params, n - 1) \o expr_params[n]

\* get_first_param_reference: "Some" (a span), "None", or "Overflow" when
\* the recursion re-enters a call that is still active with the same
\* arguments (expr and expr_params are not changed by the test-only mode,
\* so the recursion never returns and the call stack is exhausted)
RECURSIVE get_first_param_reference(_, _, _, _, _)
RECURSIVE first_reference_through(_, _, _, _, _, _)
first_reference_through(expr_params, E, expr, param, active, idx) ==
  LET flat == flatten_params(expr_params, Len(expr_params))
  IN IF idx > Len(flat) THEN "None"
     ELSE IF /\ ~param_name_conflict(flat[idx], param)
             /\ references_param("GenericParam", flat[idx], param)
          THEN Only({IF r = "None"
                     THEN first_reference_through(expr_params, E, expr, param,
                                                  active, idx + 1)
                     ELSE r :
                     r \in {get_first_param_reference(expr_params, E, expr,
                                                      flat[idx], active)}})
          ELSE first_reference_through(expr_params, E, expr, param,
                                       active, idx + 1)

direct_reference_only(expr_params, E, expr, param, active) ==
  IF references_param(E, expr, param) THEN "Some" ELSE "None"

get_first_param_reference(expr_params, E, expr, param, active) ==
  IF param \in active THEN "Overflow"
  ELSE IF references_param(E, expr, param) THEN "Some"
  ELSE first_reference_through(expr_params, E, expr, param,
                               active \cup {param}, 1)

\* add_param_indirections, first loop: the parameters of the scope
\* indir_idx that are not shadowed and are referenced, from param_idx on
RECURSIVE referenced_params_from(_, _, _, _, _)
referenced_params_from(expr_params, E, expr, param_idx, acc) ==
  LET indir_idx == Len(expr_params)
      scope == expr_params[indir_idx]
  IN IF param_idx > Len(scope)
     THEN [overflow |-> FALSE, refs |-> acc]
     ELSE
       LET param == scope[param_idx]
           inner == flatten_params(expr_params, indir_idx - 1)
       IN IF \E i \in 1..Len(inner) : param_name_conflict(param, inner[i])
          THEN referenced_params_from(expr_params, E, expr, param_idx + 1, acc)
          ELSE
            Only({CASE r = "Overflow" -> [overflow |-> TRUE, refs |-> acc]
                    [] r = "Some" ->
                         referenced_params_from(expr_params, E, expr, param_idx + 1,
                           Append(acc, [param |-> param,
                                        arg |-> generic_param_arg(param)]))
                    [] r = "None" ->
                         referenced_params_from(expr_params, E, expr,
                                                param_idx + 1, acc) :
                    r \in {get_first_param_reference(expr_params, E, expr,
                                                     param, {})}})

\* the parameters of the (param, arg) pairs st.n visited by subst, from
\* idx on
RECURSIVE visit_pair_params(_, _, _)
visit_pair_params(S, st, idx) ==
  IF idx > Len(st.n) THEN st
  ELSE visit_pair_params(S,
         Only({[n |-> [st.n EXCEPT ![idx].param = h.n], result |-> h.result] :
                 h \in {visit_generic_param_mut(WithResult(S, st.result),
                                                st.n[idx].param)}}),
         idx + 1)

\* the scopes expr_params[..indir_idx] (st.n) visited by subst, in reverse
\* order
RECURSIVE visit_inner_scopes(_, _, _)
visit_inner_scopes(S, st, n) ==
  IF n = 0 THEN st
  ELSE visit_inner_scopes(S,
         Only({[n |-> [st.n EXCEPT ![n] = v.n], result |-> v.result] :
                 v \in {VisitSeq("generic_param", WithResult(S, st.result),
                                 st.n[n])}}),
         n - 1)

\* add_param_indirections, second loop, the renaming of one referenced
\* parameter: subst visits the inner scopes, the referenced parameters and
\* expr
rename_referenced_param(expr_params, E, expr, referenced_params, param_idx, au) ==
  LET S == ParamSubst_new(au.old, ArgParam(au.param))
      r1 == [referenced_params EXCEPT ![param_idx].param = au.param]
  IN Only({
       Only({
         Only({[expr_params |-> vi.n, refs |-> vr.n, expr |-> ve.n,
                result |-> ve.result] :
                 ve \in {substitute_impl(E, expr, WithResult(S, vr.result))}}) :
         vr \in {visit_pair_params(S, [n |-> r1, result |-> vi.result], 1)}}) :
       vi \in {visit_inner_scopes(S, [n |-> expr_params, result |-> S.result],
                                  Len(expr_params) - 1)}})

\* add_param_indirections, second loop: the referenced parameters that
\* conflict with a parameter of expr_params[..conflicting_expr_params] are
\* renamed, and the rename is applied to the inner scopes, the referenced
\* parameters and expr
RECURSIVE rename_referenced_params(_, _, _, _, _, _)
rename_referenced_params(expr_params, E, expr, conflicting_expr_params, referenced_params, param_idx) ==
  IF param_idx > Len(referenced_params)
  THEN [ok |-> TRUE, expr_params |-> expr_params, expr |-> expr,
        refs |-> referenced_params, err |-> ""]
  ELSE Only({
    IF ~au.some
    THEN rename_referenced_params(expr_params, E, expr, conflicting_expr_params,
                                  referenced_params, param_idx + 1)
    ELSE Only({
      IF ~v.result.ok
      THEN [ok |-> FALSE, expr_params |-> v.expr_params, expr |-> v.expr,
            refs |-> v.refs, err |-> v.result.err]
      ELSE rename_referenced_params(v.expr_params, E, v.expr,
                                    conflicting_expr_params, v.refs,
                                    param_idx + 1) :
      v \in {rename_referenced_param(expr_params, E, expr, referenced_params,
                                     param_idx, au)}}) :
    au \in {add_underscores_if_conflicting(referenced_params[param_idx].param,
              [k |-> "ExprParams",
               ps |-> flatten_params(expr_params, conflicting_expr_params)])}})

\* add_param_indirections
add_param_indirections(expr_params, E, expr, conflicting_expr_params, params) ==
  Only({
    IF rp.overflow
    THEN [ok |-> FALSE, overflow |-> TRUE, expr_params |-> expr_params,
          expr |-> expr, params |-> params, err |-> "stack overflow"]
    ELSE Only({[ok |-> rn.ok, overflow |-> FALSE,
                expr_params |-> rn.expr_params, expr |-> rn.expr,
                params |-> IF rn.ok THEN params \o rn.refs ELSE params,
                err |-> rn.err] :
                 rn \in {rename_referenced_params(expr_params, E, expr,
                            conflicting_expr_params, rp.refs, 1)}}) :
    rp \in {referenced_params_from(expr_params, E, expr, 1, <<>>)}})

\* build_indirection_impl with the handlers of build_indirection_contents
\* (on_empty, on_self and on_generics do nothing); context is the remaining
\* scope chain
RECURSIVE build_indirection_contents(_, _, _, _)
build_indirection_contents(expr_params, E, expr, context) ==
  IF context = <<>>
  THEN [ok |-> TRUE, overflow |-> FALSE, expr_params |-> expr_params,
        expr |-> expr, params |-> <<>>, err |-> ""]
  ELSE
    LET scope == Head(context)
        pushed == IF scope.k = "WithSelf"
                  THEN Append(expr_params, <<scope.param>>)
                  ELSE Append(expr_params, scope.generics.params)
        conflicting_expr_params ==
                  IF scope.k = "WithSelf" THEN Len(pushed) ELSE Len(expr_params)
    IN Only({
         IF ~outer.ok THEN outer
         ELSE Only({[a EXCEPT !.expr_params = SubSeq(@, 1, Len(@) - 1)] :
                      a \in {add_param_indirections(outer.expr_params, E,
                                outer.expr, conflicting_expr_params,
                                outer.params)}}) :
         outer \in {build_indirection_contents(pushed, E, expr, Tail(context))}})

\* build_indirection
build_indirection(E, expr, context) ==
  build_indirection_contents(<<>>, E, expr, context)

\* the parameters a scope pushes onto expr_params
ScopeParams(scope) ==
  IF scope.k = "WithSelf" THEN <<scope.param>> ELSE scope.generics.params

\* generics.rs: the type parameter named Self with the given bounds
self_type_param(bounds) ==
  TypeParam("Self", bounds)

\* the result of isolate_type_param and of its handlers: the result of
\* build_indirection_contents (r) with the isolated type parameter
Isolated(r, type_param) ==
  [ok |-> r.ok, overflow |-> r.overflow, expr_params |-> r.expr_params,
   expr |-> r.expr, params |-> r.params, err |-> r.err,
   type_param |-> type_param]

IsolateErr(expr_params, expr, err) ==
  [ok |-> FALSE, overflow |-> FALSE, expr_params |-> expr_params,
   expr |-> expr, params |-> <<>>, err |-> err, type_param |-> NoNode]

\* isolate_type_param, on_generics: the index of the first parameter of the
\* list that is a type or const parameter named param_ident, or 0
RECURSIVE first_named_from(_, _, _)
first_named_from(params, param_ident, param_idx) ==
  IF param_idx > Len(params) THEN 0
  ELSE IF params[param_idx].k # "Lifetime" /\ params[param_idx].id = param_ident
  THEN param_idx
  ELSE first_named_from(params, param_ident, param_idx + 1)

\* expr_params[expr_params_orig_len].remove(param_idx)
remove_from_last(expr_params, param_idx) ==
  [expr_params EXCEPT ![Len(expr_params)] =
     SubSeq(@, 1, param_idx - 1) \o SubSeq(@, param_idx + 1, Len(@))]

\* isolate_type_param, on_generics, for the type parameter found at
\* param_idx: outer is the result of build_indirection_contents for
\* next_context with the list pushed
isolate_in_generics(E, outer, generics, param_idx) ==
  IF ~outer.ok THEN Isolated(outer, NoNode)
  ELSE Only({
    IF ~a.ok THEN Isolated(a, NoNode)
    ELSE Only({
      IF ~r.ok
      THEN IsolateErr(a.expr_params, r.n, r.err)
      ELSE Isolated([a EXCEPT !.expr = r.n,
                              !.expr_params = SubSeq(@, 1, Len(@) - 1)],
                    generics.params[param_idx]) :
      r \in {substitute(E, a.expr, generics.params[param_idx],
                ArgParam(self_type_param(generics.params[param_idx].bounds)))}}) :
    a \in {add_param_indirections(remove_from_last(outer.expr_params, param_idx),
              E, outer.expr, Len(outer.expr_params) - 1, outer.params)}})

\* build_indirection_impl for a scope the handlers of isolate_type_param
\* passed over: found is the result for next_context with the scope pushed
isolate_passed_over(E, found, conflicting_expr_params) ==
  IF ~found.ok THEN found
  ELSE Only({Isolated([a EXCEPT !.expr_params = SubSeq(@, 1, Len(@) - 1)],
                      found.type_param) :
               a \in {add_param_indirections(found.expr_params, E, found.expr,
                         conflicting_expr_params, found.params)}})

\* build_indirection_impl with the handlers of isolate_type_param
RECURSIVE isolate_type_param_impl(_, _, _, _, _)
isolate_type_param_impl(expr_params, E, expr, context, param_ident) ==
  IF context = <<>>
  THEN IsolateErr(expr_params, expr, "type param not found")
  ELSE
    LET scope == Head(context)
        pushed == Append(expr_params, ScopeParams(scope))
        param_idx == first_named_from(ScopeParams(scope), param_ident, 1)
    IN CASE scope.k = "WithSelf" /\ scope.param.k # "Type" ->
              IsolateErr(expr_params, expr, "unreachable")
         [] scope.k = "WithSelf" /\ scope.param.k = "Type" /\ param_idx = 1 ->
              Only({Isolated([r EXCEPT !.expr_params =
                                         IF r.ok THEN SubSeq(@, 1, Len(@) - 1) ELSE @],
                             IF r.ok THEN scope.param ELSE NoNode) :
                      r \in {build_indirection_contents(pushed, E, expr,
                                                         Tail(context))}})
         [] scope.k = "WithSelf" /\ scope.param.k = "Type" /\ param_idx = 0 ->
              isolate_passed_over(E,
                isolate_type_param_impl(pushed, E, expr, Tail(context), param_ident),
                Len(pushed))
         [] scope.k = "WithGenerics" /\ param_idx = 0 ->
              isolate_passed_over(E,
                isolate_type_param_impl(pushed, E, expr, Tail(context), param_ident),
                Len(expr_params))
         [] scope.k = "WithGenerics" /\ param_idx > 0 ->
              IF scope.generics.params[param_idx].k = "Const"
              THEN IsolateErr(expr_params, expr,
                              "type param expected, but is a const param")
              ELSE isolate_in_generics(E,
                     build_indirection_contents(pushed, E, expr, Tail(context)),
                     scope.generics, param_idx)

\* isolate_type_param
isolate_type_param(E, expr, context, param_ident) ==
  isolate_type_param_impl(<<>>, E, expr, context, param_ident)

--------------------------------------------------------------------------
(* item.rs.  A MetaGenericParam is a GenericParam or TypeBoundParam(id);   *)
(* PathArguments is NoArguments, AngleBracketed(args) or Parenthesized.    *)

TypeBoundParam(id) ==
  [k |-> "TypeBound", id |-> id]

NoArguments ==
  [k |-> "None", args |-> <<>>]

AngleBracketed(args) ==
  [k |-> "AngleBracketed", args |-> args]

Parenthesized ==
  [k |-> "Parenthesized", args |-> <<>>]

\* check_trait_impl_args, the match on param: the error for argument arg
\* (the message without its quotation marks), or "" when the argument is
\* the bare reference to the parameter
check_trait_impl_arg(param, arg) ==
  IF param.k = "Lifetime"
  THEN IF arg.k # "GLife" THEN "lifetime expected"
       ELSE IF arg.id # param.id THEN "lifetime " \o param.id \o " expected"
       ELSE ""
  ELSE IF arg.k # "GType" THEN "variable expected"
       ELSE IF ~type_is_ident(arg.ty, param.id)
       THEN CASE param.k = "Type" -> "type " \o param.id \o " expected"
              [] param.k = "Const" -> "constant " \o param.id \o " expected"
              [] param.k = "TypeBound" -> "type bound " \o param.id \o " expected"
       ELSE ""

\* check_trait_impl_args, the loop over the parameters from param_idx on
RECURSIVE check_trait_impl_args_from(_, _, _)
check_trait_impl_args_from(params, args, param_idx) ==
  IF param_idx > Len(params) THEN OkResult
  ELSE IF param_idx > Len(args) THEN ErrResult("too few arguments")
  ELSE Only({IF e # "" THEN ErrResult(e)
             ELSE check_trait_impl_args_from(params, args, param_idx + 1) :
             e \in {check_trait_impl_arg(params[param_idx], args[param_idx])}})

\* MetaItemList::check_trait_impl_args
check_trait_impl_args(impl_item_generics, impl_item_args) ==
  IF impl_item_generics.params = <<>>
  THEN IF impl_item_args.k # "None" THEN ErrResult("no arguments expected")
       ELSE OkResult
  ELSE IF impl_item_args.k # "AngleBracketed"
  THEN ErrResult("arguments in angle brackets expected")
  ELSE check_trait_impl_args_from(impl_item_generics.params,
                                  impl_item_args.args, 1)

\* The items of a MetaItemList.  contents is [k |-> "Enum"] or
\* [k |-> "Alias", complex_arg |-> path.arguments.has_complex_type_arg()];
\* matches is the set of the names of the declarations on which the match
\* expressions of a body dispatch.
ItemTraitDef(ident, generics, where_clause, contents) ==
  [k |-> "TraitDef", ident |-> ident, generics |-> generics,
   where_clause |-> where_clause, contents |-> contents]

ItemTraitImpl(segments, generics, args, items) ==
  [k |-> "TraitImpl", segments |-> segments, generics |-> generics,
   args |-> args, items |-> items]

ItemCode(kind, ident, matches) ==
  [k |-> kind, ident |-> ident, matches |-> matches]

\* MetaItemList::output, first loop, for one item: a declaration is pushed
\* as an OutputItemTraitDef whose variants are Some(..) for an enum and
\* None for an alias
output_trait_def_enums_only(result, item) ==
  IF item.k = "TraitDef" /\ item.contents.k = "Enum"
  THEN Append(result, [k |-> "TraitDef", trait_def |-> item,
                       has_variants |-> TRUE, impl_items |-> <<>>])
  ELSE result

output_trait_def(result, item) ==
  IF item.k = "TraitDef"
  THEN Append(result, [k |-> "TraitDef", trait_def |-> item,
                       has_variants |-> item.contents.k = "Enum",
                       impl_items |-> <<>>])
  ELSE result

\* output.rs, OutputMetaItemList::trait_def_item: the index of the entry of
\* the declaration named ident, or 0
trait_def_item(result, ident) ==
  IF \E i \in 1..Len(result) :
        result[i].k = "TraitDef" /\ result[i].trait_def.ident = ident
  THEN CHOOSE i \in 1..Len(result) :
         /\ result[i].k = "TraitDef" /\ result[i].trait_def.ident = ident
         /\ \A j \in 1..(i - 1) :
               ~(result[j].k = "TraitDef" /\ result[j].trait_def.ident = ident)
  ELSE 0

\* output.rs, the conversion of the match expressions of a body: the
\* declarations they dispatch on have their variants afterwards
perform_matches(result, matches) ==
  [i \in 1..Len(result) |->
     IF result[i].k = "TraitDef" /\ result[i].trait_def.ident \in matches
     THEN [result[i] EXCEPT !.has_variants = TRUE]
     ELSE result[i]]

\* MetaItemList::output, second loop, the items of an impl block from idx
\* on: create_trait_item converts the body, add_item files it under its
\* name, which must be new in the entry of the target
RECURSIVE add_impl_items(_, _, _, _)
add_impl_items(result, ident, items, idx) ==
  IF idx > Len(items) THEN [ok |-> TRUE, result |-> result, err |-> ""]
  ELSE Only({
    IF \E j \in 1..Len(converted[trait_def_item(converted, ident)].impl_items) :
          converted[trait_def_item(converted, ident)].impl_items[j] = items[idx].ident
    THEN [ok |-> FALSE, result |-> converted, err |-> "duplicate item"]
    ELSE add_impl_items(
           [converted EXCEPT ![trait_def_item(converted, ident)].impl_items =
                               Append(@, items[idx].ident)],
           ident, items, idx + 1) :
    converted \in {perform_matches(result, items[idx].matches)}})

\* MetaItemList::output, second loop, MetaItem::TraitImpl
output_trait_impl(result, impl_item) ==
  IF Len(impl_item.segments) # 1
  THEN [ok |-> FALSE, result |-> result,
        err |-> "trait impl cannot have nontrivial path"]
  ELSE IF trait_def_item(result, impl_item.segments[1]) = 0
  THEN [ok |-> FALSE, result |-> result, err |-> "trait not found"]
  ELSE IF impl_item.generics
            # result[trait_def_item(result, impl_item.segments[1])].trait_def.generics
  THEN [ok |-> FALSE, result |-> result, err |-> "tokens differ"]
  ELSE Only({
    IF ~r.ok THEN [ok |-> FALSE, result |-> result, err |-> r.err]
    ELSE add_impl_items(result, impl_item.segments[1], impl_item.items, 1) :
    r \in {check_trait_impl_args(impl_item.generics, impl_item.args)}})

\* MetaItemList::output, second loop, for one item
output_item(result, item) ==
  CASE item.k = "TraitDef" -> [ok |-> TRUE, result |-> result, err |-> ""]
    [] item.k = "TraitImpl" -> output_trait_impl(result, item)
    [] item.k \in {"Type", "Fn"} ->
         [ok |-> TRUE,
          result |-> Append(perform_matches(result, item.matches),
                            [k |-> "Item", ident |-> item.ident]),
          err |-> ""]

\* MetaItemList::output, third loop, without the test of the alias
\* arguments
validate_where_clause(result) ==
  IF \E i \in 1..Len(result) :
        /\ result[i].k = "TraitDef" /\ ~result[i].has_variants
        /\ result[i].trait_def.where_clause
  THEN ErrResult("at least one match expression corresponding to where clause required")
  ELSE OkResult

\* MetaItemList::output, third loop: the first declaration without variants
\* that has a where clause or complex alias arguments is the error
validate(result) ==
  LET missing == {i \in 1..Len(result) :
                    /\ result[i].k = "TraitDef" /\ ~result[i].has_variants
                    /\ \/ result[i].trait_def.where_clause
                       \/ /\ result[i].trait_def.contents.k = "Alias"
                          /\ result[i].trait_def.contents.complex_arg}
      first == CHOOSE i \in missing : \A j \in missing : i <= j
  IN IF missing = {} THEN OkResult
     ELSE IF result[first].trait_def.where_clause
     THEN ErrResult("at least one match expression corresponding to where clause required")
     ELSE ErrResult("at least one match expression corresponding to alias arguments required")

--------------------------------------------------------------------------
(* item.rs: the dependencies of a declaration                              *)

\* A syn::Path of a trait bound or an alias argument, and the trait bound
\* on it.  The state of the collection is [part_ident, dependent_idents];
\* part_ident is <<>> (None) or <<ident>> (Some).
Path(lead, segs) ==
  [lead |-> lead, segs |-> segs]

TraitBound(path) ==
  [k |-> "BTrait", lead |-> path.lead, segs |-> path.segs]

\* helpers.rs: the identifier of the self type
self_type_ident ==
  "Self"

\* generics.rs, contained_in_path(path, true): the path starts with the
\* name of a type or const parameter of the list, or a type argument of one
\* of its segments does
RECURSIVE contained_in_path(_, _)
contained_in_path(generics, path) ==
  \/ /\ ~path.lead
     /\ \E i \in 1..Len(generics.params) :
           /\ generics.params[i].k # "Lifetime"
           /\ generics.params[i].id = path.segs[1].id
  \/ \E j \in 1..Len(path.segs) : \E n \in 1..Len(path.segs[j].args) :
        /\ path.segs[j].args[n].k = "GType"
        /\ path.segs[j].args[n].ty.k = "TPath"
        /\ contained_in_path(generics, path.segs[j].args[n].ty)

\* Vec::contains
contains(idents, ident) ==
  \E i \in 1..Len(idents) : idents[i] = ident

is_super_trait_ident(trait_def, ident) ==
  /\ trait_def.contents.k = "Alias"
  /\ ~trait_def.contents.path.lead
  /\ Len(trait_def.contents.path.segs) = 1
  /\ trait_def.contents.path.segs[1].id = ident

\* arguments is the argument list of a segment (empty unless angle
\* bracketed)
are_path_arguments_dependent(trait_def, arguments) ==
  \E n \in 1..Len(arguments) :
     /\ arguments[n].k = "GType"
     /\ arguments[n].ty.k = "TPath"
     /\ arguments[n].ty.qself = <<>>
     /\ \/ path_is_ident(arguments[n].ty, self_type_ident)
        \/ contained_in_path(trait_def.generics, arguments[n].ty)

\* the path of one segment without leading colon: the declaration's own
\* name sets the part identity, another name is pushed when it is new and
\* dependent
collect_single_segment(trait_def, path, st) ==
  IF path.lead \/ Len(path.segs) # 1 THEN st
  ELSE IF path.segs[1].id = trait_def.ident
  THEN IF st.part_ident = <<>>
       THEN [st EXCEPT !.part_ident = <<self_type_ident>>]
       ELSE st
  ELSE IF /\ ~contains(st.dependent_idents, path.segs[1].id)
          /\ \/ is_super_trait_ident(trait_def, path.segs[1].id)
             \/ are_path_arguments_dependent(trait_def, path.segs[1].args)
  THEN [st EXCEPT !.dependent_idents = Append(@, path.segs[1].id)]
  ELSE st

collect_dependencies_in_trait_path(trait_def, path, st) ==
  LET st1 == collect_single_segment(trait_def, path, st)
  IN IF st1.part_ident = <<>> /\ contained_in_path(trait_def.generics, path)
     THEN [st1 EXCEPT !.part_ident = <<self_type_ident>>]
     ELSE st1

\* collect_dependencies_in_bounds, the loop from idx on
RECURSIVE collect_in_bounds_from(_, _, _, _)
collect_in_bounds_from(trait_def, bounds, st, idx) ==
  IF idx > Len(bounds) THEN st
  ELSE collect_in_bounds_from(trait_def, bounds,
         IF bounds[idx].k = "BTrait"
         THEN collect_dependencies_in_trait_path(trait_def, bounds[idx], st)
         ELSE st,
         idx + 1)

collect_dependencies_in_bounds(trait_def, bounds, st) ==
  collect_in_bounds_from(trait_def, bounds, st, 1)

\* collect_dependencies_in_generics, the loop from idx on
RECURSIVE collect_in_generics_from(_, _, _, _)
collect_in_generics_from(trait_def, generics, st, idx) ==
  IF idx > Len(generics.params) THEN st
  ELSE collect_in_generics_from(trait_def, generics,
         IF generics.params[idx].k = "Type"
         THEN collect_dependencies_in_bounds(trait_def,
                                             generics.params[idx].bounds, st)
         ELSE st,
         idx + 1)

collect_dependencies_in_generics(trait_def, generics, st) ==
  collect_in_generics_from(trait_def, generics, st, 1)

\* add_ident_to_dependencies without the test for a known identifier
add_ident_unchecked(trait_def, ident, dependent_idents) ==
  IF ident # trait_def.ident
  THEN Append(dependent_idents, ident)
  ELSE dependent_idents

add_ident_to_dependencies(trait_def, ident, dependent_idents) ==
  IF ident # trait_def.ident /\ ~contains(dependent_idents, ident)
  THEN Append(dependent_idents, ident)
  ELSE dependent_idents

add_path_to_dependencies(trait_def, path, dependent_idents) ==
  IF ~path.lead /\ Len(path.segs) = 1
  THEN add_ident_to_dependencies(trait_def, path.segs[1].id, dependent_idents)
  ELSE dependent_idents

--------------------------------------------------------------------------
(* Bounds and inputs                                                       *)

\* longest path, in segments
MaxSegs ==
  2

\* most selectors of one match arm
MaxSelectors ==
  2

\* longest scope chain
MaxScopes ==
  2

\* most items of a MetaItemList
MaxItems ==
  3

\* the length at which the collection of dependencies is cut off
MaxDeps ==
  4

SeqsUpTo(S, n) ==
  UNION {[1..m -> S] : m \in 1..n}

T ==
  TId("T")

\* the substituted parameters
Params ==
  {TypeParam("A", <<>>), TypeParam("X_", <<>>), LifetimeParam("a", <<>>),
   ConstParam("A", T)}

XPlus42 ==
  EBin(EId("X"), ELit(42))

TupleXY ==
  TTuple(<<TId("X"), TId("Y")>>)

\* the real arguments: parameters and concrete arguments of every kind
RealArgs ==
  {ArgParam(TypeParam("X", <<>>)), ArgParam(LifetimeParam("x", <<>>)),
   ArgParam(ConstParam("X", T)),
   ArgArg(GType(TupleXY)), ArgArg(GLife("x")), ArgArg(GConst(XPlus42))}

PathSegments ==
  {Seg("A", <<>>), Seg("C", <<>>), Seg("C", <<GType(TId("A"))>>),
   Seg("A", <<GType(TId("A"))>>), Seg("C", <<GLife("a")>>)}

\* A, ::A, A::C, <A>::C, B::A, A::C<A>, C<'a>, ...
PathShapes ==
  [qself : {<<>>, <<TId("A")>>}, lead : BOOLEAN,
   segs : SeqsUpTo(PathSegments, MaxSegs)]

TypePaths ==
  {TPath(s.qself, s.lead, s.segs) : s \in PathShapes}

ExprPaths ==
  {EPath(s.qself, s.lead, s.segs) : s \in PathShapes}

\* F<A, B, G<A::C::D>, E>
NestedType ==
  TGen("F", <<GType(TId("A")), GType(TId("B")),
              GType(TGen("G", <<GType(TPath(<<>>, FALSE,
                 <<Seg("A", <<>>), Seg("C", <<>>), Seg("D", <<>>)>>))>>)),
              GType(TId("E"))>>)

OtherTypes ==
  {TId("B"), TId("X"), TId("X_"), NestedType,
   TTuple(<<TId("A"), TId("X")>>), TTuple(<<TId("X_"), TId("X")>>)}

\* f(A, B(A(C))), f(B), X + 42, A + 1, 7, f::<A>, { let y: A = A; y }
OtherExprs ==
  {ECall(EId("f"), <<EId("A"), ECall(EId("B"), <<ECall(EId("A"), <<EId("C")>>)>>)>>),
   ECall(EId("f"), <<EId("B")>>),
   XPlus42, EBin(EId("A"), ELit(1)), ELit(7),
   EPath(<<>>, FALSE, <<Seg("f", <<GType(TId("A"))>>)>>),
   EBlock("y", TId("A"), EId("A"), EId("y"))}

FOf(id) ==
  BTrait(<<Seg("F", <<GType(TId(id))>>)>>)

\* <'a: 'b, 'c: 'a>, <A, E: F<A>>, <E: F<A> + 'a>, <const N: A>
GenericsNodes ==
  {Generics(<<LifetimeParam("a", <<"b">>), LifetimeParam("c", <<"a">>)>>),
   Generics(<<TypeParam("A", <<>>), TypeParam("E", <<FOf("A")>>)>>),
   Generics(<<TypeParam("E", <<FOf("A"), BLife("a")>>)>>),
   Generics(<<ConstParam("N", TId("A"))>>),
   Generics(<<TypeParam("D", <<>>)>>)}

\* C<D, X>, C<D, A, E: F<A>>, C<E: F<A>>, _, C<'b, 'a: 'a>
SelectorPool ==
  {Specific("C", Generics(<<TypeParam("D", <<>>), TypeParam("X", <<>>)>>)),
   Specific("C", Generics(<<TypeParam("D", <<>>), TypeParam("A", <<>>),
                            TypeParam("E", <<FOf("A")>>)>>)),
   Specific("C", Generics(<<TypeParam("E", <<FOf("A")>>)>>)),
   DefaultSel,
   Specific("C", Generics(<<LifetimeParam("b", <<>>), LifetimeParam("a", <<"a">>)>>))}

\* match <C> { D => A }
NestedMatch ==
  Match(<<TId("C")>>, <<Arm(<<Specific("D", Generics(<<>>))>>, TId("A"))>>)

\* A, (A, X), (X_, X), F<'a, A>, match <C> { D => A }
TypeBodies ==
  {TId("A"), TTuple(<<TId("A"), TId("X")>>), TTuple(<<TId("X_"), TId("X")>>),
   TGen("F", <<GLife("a"), GType(TId("A"))>>), NestedMatch}

TypeMatches ==
  {Match(<<t>>, <<Arm(sels, body)>>) :
     t \in {TId("B"), TGen("F", <<GType(TId("A"))>>)},
     sels \in SeqsUpTo(SelectorPool, MaxSelectors),
     body \in TypeBodies}

\* match <B> { C => A, D => B, E => F<'b, 'a, A> }
\* match <B> { C<D, X, Y: F<X>> => (A, X, Y) }
\* match <B> { C<X, X_> => (A, X, X_) }
\* match <B> { C<X>, D<P: F<X>> => (A, X, P) }
OtherTypeMatches ==
  {Match(<<TId("B")>>,
         <<Arm(<<Specific("C", Generics(<<>>))>>, TId("A")),
           Arm(<<Specific("D", Generics(<<>>))>>, TId("B")),
           Arm(<<Specific("E", Generics(<<>>))>>,
               TGen("F", <<GLife("b"), GLife("a"), GType(TId("A"))>>))>>),
   Match(<<TId("B")>>,
         <<Arm(<<Specific("C", Generics(<<TypeParam("D", <<>>), TypeParam("X", <<>>),
                                          TypeParam("Y", <<FOf("X")>>)>>))>>,
               TTuple(<<TId("A"), TId("X"), TId("Y")>>))>>),
   Match(<<TId("B")>>,
         <<Arm(<<Specific("C", Generics(<<TypeParam("X", <<>>), TypeParam("X_", <<>>)>>))>>,
               TTuple(<<TId("A"), TId("X"), TId("X_")>>))>>),
   Match(<<TId("B")>>,
         <<Arm(<<Specific("C", Generics(<<TypeParam("X", <<>>)>>)),
                 Specific("D", Generics(<<TypeParam("P", <<FOf("X")>>)>>))>>,
               TTuple(<<TId("A"), TId("X"), TId("P")>>))>>)}

FTurbo(ids) ==
  EPath(<<>>, FALSE, <<Seg("f", [i \in 1..Len(ids) |-> GType(TId(ids[i]))])>>)

\* match <B> { C => A, D => B, E => f(A) }
\* match <B> { C<D, A, E: F<A>> => f::<A> }
\* match <B> { C<D, E: F<A>> => f::<A> }
\* match <B> { C<D, X> => f::<A, X> }
ExprMatches ==
  {Match(<<TId("B")>>,
         <<Arm(<<Specific("C", Generics(<<>>))>>, EId("A")),
           Arm(<<Specific("D", Generics(<<>>))>>, EId("B")),
           Arm(<<Specific("E", Generics(<<>>))>>, ECall(EId("f"), <<EId("A")>>))>>),
   Match(<<TId("B")>>,
         <<Arm(<<Specific("C", Generics(<<TypeParam("D", <<>>), TypeParam("A", <<>>),
                                          TypeParam("E", <<FOf("A")>>)>>))>>,
               FTurbo(<<"A">>))>>),
   Match(<<TId("B")>>,
         <<Arm(<<Specific("C", Generics(<<TypeParam("D", <<>>),
                                          TypeParam("E", <<FOf("A")>>)>>))>>,
               FTurbo(<<"A">>))>>),
   Match(<<TId("B")>>,
         <<Arm(<<Specific("C", Generics(<<TypeParam("D", <<>>), TypeParam("X", <<>>)>>))>>,
               FTurbo(<<"A", "X">>))>>)}

\* the nodes substitute is called on, with their Substitutable kind
SubstNodes ==
  [kind : {"Type"}, node : TypePaths \cup OtherTypes]
  \cup [kind : {"Expr"}, node : ExprPaths \cup OtherExprs]
  \cup [kind : {"Block"}, node : {EBlock("y", TId("A"), EId("A"), EId("y")),
                                  EBlock("y", TId("B"), ELit(1), EId("y"))}]
  \cup [kind : {"Generics"}, node : GenericsNodes]
  \cup [kind : {"TLType"}, node : TypeMatches \cup OtherTypeMatches]
  \cup [kind : {"TLExpr"}, node : ExprMatches]

SubstCalls ==
  {[op |-> "substitute", kind |-> sn.kind, node |-> sn.node,
    param |-> p, arg |-> a] : sn \in SubstNodes, p \in Params, a \in RealArgs}

\* <X>, <D, X>, <X, Y: F<X>>, <X, X_>, <'x, 'y: 'x>, <const X: T, E: F<X>>
RenameGenerics ==
  {Generics(<<TypeParam("X", <<>>)>>),
   Generics(<<TypeParam("D", <<>>), TypeParam("X", <<>>)>>),
   Generics(<<TypeParam("X", <<>>), TypeParam("Y", <<FOf("X")>>)>>),
   Generics(<<TypeParam("X", <<>>), TypeParam("X_", <<>>)>>),
   Generics(<<LifetimeParam("x", <<>>), LifetimeParam("y", <<"x">>)>>),
   Generics(<<ConstParam("X", T), TypeParam("E", <<FOf("X")>>)>>)}

RenamePreds ==
  {[k |-> "Param", p |-> TypeParam("X", <<>>)],
   [k |-> "Param", p |-> LifetimeParam("x", <<>>)],
   [k |-> "Arg", a |-> GType(TupleXY)],
   [k |-> "Generics", g |-> Generics(<<TypeParam("X", <<>>), TypeParam("X_", <<>>)>>)],
   [k |-> "Generics", g |-> Generics(<<TypeParam("Z", <<>>)>>)]}

\* (A, X), X::C, X::C<X>, F<'x, X>, match <X> { D<X> => X, E => X }
RenameBodies ==
  [E : {"TLType"},
   body : {TTuple(<<TId("A"), TId("X")>>),
           TPath(<<>>, FALSE, <<Seg("X", <<>>), Seg("C", <<>>)>>),
           TPath(<<>>, FALSE, <<Seg("X", <<>>), Seg("C", <<GType(TId("X"))>>)>>),
           TGen("F", <<GLife("x"), GType(TId("X"))>>),
           Match(<<TId("X")>>,
                 <<Arm(<<Specific("D", Generics(<<TypeParam("X", <<>>)>>))>>, TId("X")),
                   Arm(<<Specific("E", Generics(<<>>))>>, TId("X"))>>)}]
  \cup [E : {"Unit"}, body : {NoNode}]

RenameCalls ==
  {[op |-> "rename_conflicting_params", generics |-> g, pred |-> pr,
    E |-> b.E, body |-> b.body] :
     g \in RenameGenerics, pr \in RenamePreds, b \in RenameBodies}

\* add_underscores_if_conflicting on parameters of every kind, with the
\* predicates: conflicts with X, with 'x, with D, with one of <X, X_>,
\* with <Z>, with one of X, X_, X__, is referenced by the argument X, is
\* referenced by one of the arguments X_, 'x
LoopCalls ==
  LET LoopParams ==
        {TypeParam("X", <<>>), TypeParam("X_", <<>>), TypeParam("Y", <<FOf("X")>>),
         TypeParam("D", <<>>), LifetimeParam("x", <<>>), LifetimeParam("y", <<"x">>),
         ConstParam("X", T), ConstParam("X_", T)}
      LoopPreds ==
        {[k |-> "Param", p |-> TypeParam("X", <<>>)],
         [k |-> "Param", p |-> LifetimeParam("x", <<>>)],
         [k |-> "Param", p |-> TypeParam("D", <<>>)],
         [k |-> "Generics",
          g |-> Generics(<<TypeParam("X", <<>>), TypeParam("X_", <<>>)>>)],
         [k |-> "Generics", g |-> Generics(<<TypeParam("Z", <<>>)>>)],
         [k |-> "ExprParams",
          ps |-> <<TypeParam("X", <<>>), TypeParam("X_", <<>>),
                   TypeParam("X__", <<>>)>>],
         [k |-> "Arg", a |-> GType(TId("X"))],
         [k |-> "Args", args |-> <<GType(TId("X_")), GLife("x")>>]}
  IN {[op |-> "add_underscores_if_conflicting", param |-> p, pred |-> pr] :
        p \in LoopParams, pr \in LoopPreds}

\* E, F, ::F, G<A>, G<Self>, H<B>, H::I, A, E<A>
DepPaths ==
  {Path(FALSE, <<Seg("E", <<>>)>>),
   Path(FALSE, <<Seg("F", <<>>)>>),
   Path(TRUE, <<Seg("F", <<>>)>>),
   Path(FALSE, <<Seg("G", <<GType(TId("A"))>>)>>),
   Path(FALSE, <<Seg("G", <<GType(TId("Self"))>>)>>),
   Path(FALSE, <<Seg("H", <<GType(TId("B"))>>)>>),
   Path(FALSE, <<Seg("H", <<>>), Seg("I", <<>>)>>),
   Path(FALSE, <<Seg("A", <<>>)>>),
   Path(FALSE, <<Seg("E", <<GType(TId("A"))>>)>>)}

\* the bound lists of a type parameter: none, each path of DepPaths as the
\* only bound, 'a, E + F, F + E, F + F, G<A> + H<B>, 'a + G<Self> + F,
\* H<B> + A, A + E, ::F + H::I + G<A>
DepBounds ==
  LET B(id, args) == TraitBound(Path(FALSE, <<Seg(id, args)>>))
      A == <<GType(TId("A"))>>
  IN {<<>>, <<BLife("a")>>}
     \cup {<<TraitBound(path)>> : path \in DepPaths}
     \cup {<<B("E", <<>>), B("F", <<>>)>>,
           <<B("F", <<>>), B("E", <<>>)>>,
           <<B("F", <<>>), B("F", <<>>)>>,
           <<B("G", A), B("H", <<GType(TId("B"))>>)>>,
           <<BLife("a"), B("G", <<GType(TId("Self"))>>), B("F", <<>>)>>,
           <<B("H", <<GType(TId("B"))>>), B("A", <<>>)>>,
           <<B("A", <<>>), B("E", <<>>)>>,
           <<TraitBound(Path(TRUE, <<Seg("F", <<>>)>>)),
             TraitBound(Path(FALSE, <<Seg("H", <<>>), Seg("I", <<>>)>>)),
             B("G", A)>>}

\* the dependencies of the declarations  enum trait E<A> {..},
\* enum trait E {..}, trait E<A> = F<..>, trait H = G<..>, collected into a
\* part identity that the caller passes as None or as a variant's name
DepCalls ==
  LET G == Generics(<<TypeParam("A", <<>>)>>)
      Alias(id) == [k |-> "Alias", complex_arg |-> FALSE,
                    path |-> Path(FALSE, <<Seg(id, <<>>)>>)]
      Defs == {ItemTraitDef("E", G, FALSE, [k |-> "Enum"]),
               ItemTraitDef("E", Generics(<<>>), FALSE, [k |-> "Enum"]),
               ItemTraitDef("E", G, FALSE, Alias("F")),
               ItemTraitDef("H", Generics(<<>>), FALSE, Alias("G"))}
  IN {[op |-> "dependencies", trait_def |-> d, part_ident |-> pi] :
        d \in Defs, pi \in {<<>>, <<"V">>}}

UnderscoreCalls ==
  {[op |-> "add_underscores_to_all_params", generics |-> g] :
     g \in RenameGenerics}

\* <P>, <P: F<Q>, Q>, <Q>, <P: F<Q>>, <Q: F<P>, P: F<Q>>, Self: F<Q>,
\* <Self_>
ScopePool ==
  {WithGenerics(Generics(<<TypeParam("P", <<>>)>>)),
   WithGenerics(Generics(<<TypeParam("P", <<FOf("Q")>>), TypeParam("Q", <<>>)>>)),
   WithGenerics(Generics(<<TypeParam("Q", <<>>)>>)),
   WithGenerics(Generics(<<TypeParam("P", <<FOf("Q")>>)>>)),
   WithGenerics(Generics(<<TypeParam("Q", <<FOf("P")>>), TypeParam("P", <<FOf("Q")>>)>>)),
   WithSelf(TypeParam("Self", <<FOf("Q")>>)),
   WithGenerics(Generics(<<TypeParam("Self_", <<>>)>>))}

IndirectionExprs ==
  {TId("P"), TId("Q"), TId("B"), TTuple(<<TId("Self"), TId("P")>>),
   TTuple(<<TId("Self"), TId("Self_")>>)}

IndirectionCalls ==
  {[op |-> "build_indirection", E |-> "Type", expr |-> e, context |-> c] :
     e \in IndirectionExprs, c \in SeqsUpTo(ScopePool, MaxScopes)}

\* <>, <A>, <A, B: F<A>>, <B, A>, <'a>, <'a, A>, <A, 'a>, <const N: T>,
\* <const N: T, A: F<N>>, <A, A_: F<A>>, <A, B: F<A>, C: F<B>>
AllParamsGenerics ==
  {Generics(<<>>),
   Generics(<<TypeParam("A", <<>>)>>),
   Generics(<<TypeParam("A", <<>>), TypeParam("B", <<FOf("A")>>)>>),
   Generics(<<TypeParam("B", <<>>), TypeParam("A", <<>>)>>),
   Generics(<<LifetimeParam("a", <<>>)>>),
   Generics(<<LifetimeParam("a", <<>>), TypeParam("A", <<>>)>>),
   Generics(<<TypeParam("A", <<>>), LifetimeParam("a", <<>>)>>),
   Generics(<<ConstParam("N", T)>>),
   Generics(<<ConstParam("N", T), TypeParam("A", <<FOf("N")>>)>>),
   Generics(<<TypeParam("A", <<>>), TypeParam("A_", <<FOf("A")>>)>>),
   Generics(<<TypeParam("A", <<>>), TypeParam("B", <<FOf("A")>>),
              TypeParam("C", <<FOf("B")>>)>>)}

RenameAllCalls ==
  {[op |-> "rename_all_params", generics |-> g, target_generics |-> t] :
     g \in AllParamsGenerics, t \in AllParamsGenerics}

\* isolate_type_param for the names P and Self, in the scope chains of
\* build_indirection and those with the scope <const P: T>
IsolateCalls ==
  {[op |-> "isolate_type_param", E |-> "Type", expr |-> e, context |-> c,
    param_ident |-> id] :
     e \in {TId("P"), TId("Q"), TTuple(<<TId("Self"), TId("P")>>)},
     c \in SeqsUpTo(ScopePool \cup {WithGenerics(Generics(<<ConstParam("P", T)>>))},
                    MaxScopes),
     id \in {"P", "Self"}}

\* MetaItemList::output on the item lists, without two declarations of one
\* name, over: enum trait E<A> {..}; enum trait W where .. {..};
\* trait L<A> = .. where ..; trait M = ..<complex argument>;
\* trait impl<A> E<A> { f }; trait impl<A> L<A> { f (match on L) };
\* trait impl U {}; type t (match on M); fn g
OutputCalls ==
  LET G == Generics(<<TypeParam("A", <<>>)>>)
      A == GType(TId("A"))
      Pool == {ItemTraitDef("E", G, FALSE, [k |-> "Enum"]),
               ItemTraitDef("W", Generics(<<>>), TRUE, [k |-> "Enum"]),
               ItemTraitDef("L", G, TRUE, [k |-> "Alias", complex_arg |-> FALSE]),
               ItemTraitDef("M", Generics(<<>>), FALSE,
                            [k |-> "Alias", complex_arg |-> TRUE]),
               ItemTraitImpl(<<"E">>, G, AngleBracketed(<<A>>),
                             <<[ident |-> "f", matches |-> {}]>>),
               ItemTraitImpl(<<"L">>, G, AngleBracketed(<<A>>),
                             <<[ident |-> "f", matches |-> {"L"}]>>),
               ItemTraitImpl(<<"U">>, Generics(<<>>), NoArguments, <<>>),
               ItemCode("Type", "t", {"M"}),
               ItemCode("Fn", "g", {})}
  IN {[op |-> "output", items |-> items] :
        items \in {l \in SeqsUpTo(Pool, MaxItems) :
                     \A i \in 1..Len(l) : \A j \in 1..Len(l) :
                        (i # j /\ l[i].k = "TraitDef" /\ l[j].k = "TraitDef")
                        => l[i].ident # l[j].ident}}

\* check_trait_impl_args for the parameter lists <>, <A>, <'a, A>,
\* <A, const N: T>, <A, B: bound> and the arguments of a segment: none,
\* (..), <>, <A>, <B>, <'a, A>, <'b, A>, <A, 'a>, <A, N>, <A, B>,
\* <A, B, C>, <'a, A, B>, <(A, B)>, <F<A>>, <{ X + 42 }>, <A, { N }>
ImplArgsCalls ==
  LET Gens == {Generics(<<>>),
               Generics(<<TypeParam("A", <<>>)>>),
               Generics(<<LifetimeParam("a", <<>>), TypeParam("A", <<>>)>>),
               Generics(<<TypeParam("A", <<>>), ConstParam("N", T)>>),
               Generics(<<TypeParam("A", <<>>), TypeBoundParam("B")>>)}
      A == GType(TId("A"))
      B == GType(TId("B"))
      Args == {NoArguments, Parenthesized, AngleBracketed(<<>>),
               AngleBracketed(<<A>>), AngleBracketed(<<B>>),
               AngleBracketed(<<GLife("a"), A>>),
               AngleBracketed(<<GLife("b"), A>>),
               AngleBracketed(<<A, GLife("a")>>),
               AngleBracketed(<<A, GType(TId("N"))>>),
               AngleBracketed(<<A, B>>),
               AngleBracketed(<<A, B, GType(TId("C"))>>),
               AngleBracketed(<<GLife("a"), A, B>>),
               AngleBracketed(<<GType(TTuple(<<TId("A"), TId("B")>>))>>),
               AngleBracketed(<<GType(TGen("F", <<A>>))>>),
               AngleBracketed(<<GConst(XPlus42)>>),
               AngleBracketed(<<A, GConst(EId("N"))>>)}
  IN {[op |-> "check_trait_impl_args", impl_item_generics |-> g,
       impl_item_args |-> a] : g \in Gens, a \in Args}

\* substitute_all and substitute_all_params on the nodes A, (A, B),
\* F<A, X>, F<'a, A>, with the parameter lists <>, <A>, <A, B: F<A>>,
\* <'a, A>, <X, A> and the arguments <>, <X>, <(X, Y), A>, <'b, X>,
\* <X + 42>, <X, Y, A>, or another parameter list as the arguments
SubstAllCalls ==
  LET Nodes == {TId("A"), TTuple(<<TId("A"), TId("B")>>),
                TGen("F", <<GType(TId("A")), GType(TId("X"))>>),
                TGen("F", <<GLife("a"), GType(TId("A"))>>),
                TTuple(<<TId("A"), TId("A_")>>)}
      Gens == {Generics(<<>>),
               Generics(<<TypeParam("A", <<>>), TypeParam("A_", <<>>)>>),
               Generics(<<TypeParam("A", <<>>)>>),
               Generics(<<TypeParam("A", <<>>), TypeParam("B", <<FOf("A")>>)>>),
               Generics(<<LifetimeParam("a", <<>>), TypeParam("A", <<>>)>>),
               Generics(<<TypeParam("X", <<>>), TypeParam("A", <<>>)>>)}
      Args == {<<>>, <<GType(TId("X"))>>, <<GType(TupleXY), GType(TId("A"))>>,
               <<GLife("b"), GType(TId("X"))>>, <<GConst(XPlus42)>>,
               <<GType(TId("X")), GType(TId("Y")), GType(TId("A"))>>}
  IN {[op |-> "substitute_all", E |-> "Type", node |-> n, generics |-> g,
       args |-> a] : n \in Nodes, g \in Gens, a \in Args}
     \cup
     {[op |-> "substitute_all_params", E |-> "Type", node |-> n,
       generics |-> g, args_generics |-> a] :
        n \in Nodes, g \in Gens, a \in AllParamsGenerics}

\* param_name_conflict on parameters of every kind that share their names
ConflictCalls ==
  LET ConflictParams ==
        {LifetimeParam("A", <<>>), LifetimeParam("B", <<>>),
         TypeParam("A", <<>>), TypeParam("B", <<FOf("A")>>),
         ConstParam("A", T), ConstParam("B", T)}
  IN {[op |-> "param_name_conflict", param1 |-> p1, param2 |-> p2] :
        p1 \in ConflictParams, p2 \in ConflictParams}

TestOnlyCalls ==
  {[op |-> "get_param_references", kind |-> sn.kind, node |-> sn.node,
    param |-> p] : sn \in SubstNodes, p \in Params}

Calls ==
  SubstCalls \cup RenameCalls \cup IndirectionCalls \cup ConflictCalls
  \cup TestOnlyCalls \cup RenameAllCalls \cup SubstAllCalls \cup IsolateCalls
  \cup ImplArgsCalls \cup OutputCalls \cup UnderscoreCalls

--------------------------------------------------------------------------
(* The state machine: one call of the library on an input, then its result *)

VARIABLES pc, call, ret, result, item_idx

vars ==
  <<pc, call, ret, result, item_idx>>

Init ==
  /\ pc = "ready"
  /\ call \in Calls
  /\ ret = NoNode
  /\ result = <<>>
  /\ item_idx = 1

\* Substitutable::substitute
Substitute ==
  /\ pc = "ready"
  /\ call.op = "substitute"
  /\ ret' = substitute(call.kind, call.node, call.param, call.arg)
  /\ pc' = "done"
  /\ UNCHANGED <<call, result, item_idx>>

\* rename_conflicting_params
RenameConflictingParams ==
  /\ pc = "ready"
  /\ call.op = "rename_conflicting_params"
  /\ ret' = rename_conflicting_params(call.generics, call.pred, call.E, call.body)
  /\ pc' = "done"
  /\ UNCHANGED <<call, result, item_idx>>

\* add_underscores_if_conflicting, up to the loop: None when the
\* parameter does not conflict, else old_param is kept and the loop entered
AddUnderscoresIfConflicting ==
  /\ pc = "ready"
  /\ call.op = "add_underscores_if_conflicting"
  /\ IF conflicting(call.pred, call.param)
     THEN /\ ret' = [some |-> TRUE, old |-> call.param, param |-> call.param]
          /\ pc' = "loop"
     ELSE /\ ret' = [some |-> FALSE, old |-> call.param, param |-> call.param]
          /\ pc' = "done"
  /\ UNCHANGED <<call, result, item_idx>>

\* add_underscores_if_conflicting, one iteration of the loop: append an
\* underscore, break when the predicate is false
AddUnderscoreAttempt ==
  /\ pc = "loop"
  /\ ret' = [ret EXCEPT !.param = add_underscore_suffix(@)]
  /\ pc' = IF conflicting(call.pred, ret'.param) THEN "loop" ELSE "done"
  /\ UNCHANGED <<call, result, item_idx>>

\* add_underscores_to_all_params
AddUnderscoresToAllParams ==
  /\ pc = "ready"
  /\ call.op = "add_underscores_to_all_params"
  /\ ret' = add_underscores_to_all_params(call.generics)
  /\ pc' = "done"
  /\ UNCHANGED <<call, result, item_idx>>

\* build_indirection
BuildIndirection ==
  /\ pc = "ready"
  /\ call.op = "build_indirection"
  /\ ret' = build_indirection(call.E, call.expr, call.context)
  /\ pc' = "done"
  /\ UNCHANGED <<call, result, item_idx>>

\* param_name_conflict
ParamNameConflict ==
  /\ pc = "ready"
  /\ call.op = "param_name_conflict"
  /\ ret' = [conflict |-> param_name_conflict(call.param1, call.param2)]
  /\ pc' = "done"
  /\ UNCHANGED <<call, result, item_idx>>

\* Substitutable::get_param_references
GetParamReferences ==
  /\ pc = "ready"
  /\ call.op = "get_param_references"
  /\ ret' = get_param_references_mut(call.kind, call.node, call.param)
  /\ pc' = "done"
  /\ UNCHANGED <<call, result, item_idx>>

\* rename_all_params
RenameAllParams ==
  /\ pc = "ready"
  /\ call.op = "rename_all_params"
  /\ ret' = rename_all_params(call.generics, call.target_generics)
  /\ pc' = "done"
  /\ UNCHANGED <<call, result, item_idx>>

\* Substitutable::substitute_all
SubstituteAll ==
  /\ pc = "ready"
  /\ call.op = "substitute_all"
  /\ ret' = substitute_all(call.E, call.node, call.generics, call.args)
  /\ pc' = "done"
  /\ UNCHANGED <<call, result, item_idx>>

\* Substitutable::substitute_all_params
SubstituteAllParams ==
  /\ pc = "ready"
  /\ call.op = "substitute_all_params"
  /\ ret' = substitute_all_params(call.E, call.node, call.generics,
                                  call.args_generics)
  /\ pc' = "done"
  /\ UNCHANGED <<call, result, item_idx>>

\* isolate_type_param
IsolateTypeParam ==
  /\ pc = "ready"
  /\ call.op = "isolate_type_param"
  /\ ret' = isolate_type_param(call.E, call.expr, call.context, call.param_ident)
  /\ pc' = "done"
  /\ UNCHANGED <<call, result, item_idx>>

\* MetaItemList::check_trait_impl_args
CheckTraitImplArgs ==
  /\ pc = "ready"
  /\ call.op = "check_trait_impl_args"
  /\ ret' = check_trait_impl_args(call.impl_item_generics, call.impl_item_args)
  /\ pc' = "done"
  /\ UNCHANGED <<call, result, item_idx>>

\* MetaItemList::output, the first loop: one iteration, or its end
OutputFirstPass ==
  /\ pc = "ready"
  /\ call.op = "output"
  /\ IF item_idx <= Len(call.items)
     THEN /\ result' = output_trait_def(result, call.items[item_idx])
          /\ item_idx' = item_idx + 1
          /\ pc' = pc
     ELSE /\ pc' = "second"
          /\ item_idx' = 1
          /\ result' = result
  /\ UNCHANGED <<call, ret>>

\* MetaItemList::output, the second loop: one iteration (an error ends the
\* call), or its end
OutputSecondPass ==
  /\ pc = "second"
  /\ IF item_idx <= Len(call.items)
     THEN \E r \in {output_item(result, call.items[item_idx])} :
            /\ result' = r.result
            /\ IF r.ok
               THEN item_idx' = item_idx + 1 /\ pc' = pc /\ ret' = ret
               ELSE item_idx' = item_idx /\ pc' = "done"
                    /\ ret' = ErrResult(r.err)
     ELSE /\ pc' = "validate"
          /\ UNCHANGED <<result, item_idx, ret>>
  /\ UNCHANGED call

\* MetaItemList::output, the third loop and the return
OutputValidate ==
  /\ pc = "validate"
  /\ ret' = validate(result)
  /\ pc' = "done"
  /\ UNCHANGED <<call, result, item_idx>>

Next ==
  \/ Substitute
  \/ RenameConflictingParams
  \/ AddUnderscoresToAllParams
  \/ BuildIndirection
  \/ ParamNameConflict
  \/ GetParamReferences
  \/ RenameAllParams
  \/ SubstituteAll
  \/ SubstituteAllParams
  \/ IsolateTypeParam
  \/ CheckTraitImplArgs
  \/ OutputFirstPass
  \/ OutputSecondPass
  \/ OutputValidate

Spec ==
  Init /\ [][Next]_vars

\* The renaming loop step by step.  The loop is sequential code: once
\* entered it runs its next iteration, which weak fairness states.
LoopInit ==
  /\ pc = "ready"
  /\ call \in LoopCalls
  /\ ret = NoNode
  /\ result = <<>>
  /\ item_idx = 1

LoopNext ==
  \/ AddUnderscoresIfConflicting
  \/ AddUnderscoreAttempt

LoopSpec ==
  LoopInit /\ [][LoopNext]_vars /\ WF_vars(LoopNext)

\* The collection of the dependencies of a declaration: any sequence of
\* calls on the state ret = [part_ident, dependent_idents].
DepInit ==
  /\ pc = "collect"
  /\ call \in DepCalls
  /\ ret = [part_ident |-> call.part_ident, dependent_idents |-> <<>>]
  /\ result = <<>>
  /\ item_idx = 1

\* ItemTraitDef::add_path_to_dependencies
AddPathToDependencies ==
  /\ pc = "collect"
  /\ Len(ret.dependent_idents) < MaxDeps
  /\ \E path \in DepPaths :
        ret' = [ret EXCEPT !.dependent_idents =
                  add_path_to_dependencies(call.trait_def, path, @)]
  /\ UNCHANGED <<pc, call, result, item_idx>>

\* ItemTraitDef::add_ident_to_dependencies
AddIdentToDependencies ==
  /\ pc = "collect"
  /\ Len(ret.dependent_idents) < MaxDeps
  /\ \E ident \in {"E", "F", "G", "H"} :
        ret' = [ret EXCEPT !.dependent_idents =
                  add_ident_to_dependencies(call.trait_def, ident, @)]
  /\ UNCHANGED <<pc, call, result, item_idx>>

\* ItemTraitDef::collect_dependencies_in_bounds
CollectDependenciesInBounds ==
  /\ pc = "collect"
  /\ Len(ret.dependent_idents) < MaxDeps
  /\ \E bounds \in DepBounds :
        ret' = collect_dependencies_in_bounds(call.trait_def, bounds, ret)
  /\ UNCHANGED <<pc, call, result, item_idx>>

\* ItemTraitDef::collect_dependencies_in_generics, on the lists
\* <'a, const N: T, T: bounds>
CollectDependenciesInGenerics ==
  /\ pc = "collect"
  /\ Len(ret.dependent_idents) < MaxDeps
  /\ \E bounds \in DepBounds :
        ret' = collect_dependencies_in_generics(
                 call.trait_def,
                 Generics(<<LifetimeParam("a", <<>>), ConstParam("N", T),
                            TypeParam("T", bounds)>>),
                 ret)
  /\ UNCHANGED <<pc, call, result, item_idx>>

DepNext ==
  \/ AddPathToDependencies
  \/ AddIdentToDependencies
  \/ CollectDependenciesInBounds
  \/ CollectDependenciesInGenerics

DepSpec ==
  DepInit /\ [][DepNext]_vars

--------------------------------------------------------------------------
(* Vocabulary of the properties                                            *)

Done(op) ==
  pc = "done" /\ call.op = op

\* the kind of a real argument
ArgKind(arg) ==
  IF arg.k = "Param" THEN arg.p.k
  ELSE CASE arg.a.k = "GLife" -> "Lifetime"
         [] arg.a.k = "GType" -> "Type"
         [] arg.a.k = "GConst" -> "Const"

KindCorrect ==
  ArgKind(call.arg) = call.param.k

IsMatchCall ==
  /\ call.op = "substitute"
  /\ call.kind \in {"TLType", "TLExpr"}
  /\ call.node.k = "Match"

IsSpecific(sel) ==
  sel.k = "Specific"

\* the positions <<arm, selector>> of the match whose parameter list
\* declares a parameter that name-conflicts with the substituted parameter
ShadowingSelectors ==
  UNION {{<<i, j>> : j \in {j \in 1..Len(call.node.arms[i].sels) :
                      /\ IsSpecific(call.node.arms[i].sels[j])
                      /\ param_generics_name_conflict(call.param,
                            call.node.arms[i].sels[j].generics)}} :
         i \in 1..Len(call.node.arms)}

ShadowedArms ==
  {ij[1] : ij \in ShadowingSelectors}

--------------------------------------------------------------------------
(* C1: if the node does not reference the parameter, substitute with a     *)
(* real argument returns Ok(false) and leaves the node identical.          *)
C1_NoOccurrenceIsNoOp ==
  (Done("substitute")
     /\ ~references_param(call.kind, call.node, call.param))
  => (ret.ok /\ ~ret.occurred /\ ret.n = call.node)

(* C2: substituting into a match leaves every arm with a selector that     *)
(* shadows the parameter completely unchanged, and records no occurrence   *)
(* for it (so a match whose arms are all shadowed and whose scrutinee does *)
(* not reference the parameter yields Ok(false)).                          *)
C2_ShadowedArmUnchanged ==
  (Done("substitute") /\ IsMatchCall)
  => /\ \A i \in ShadowedArms : ret.n.arms[i] = call.node.arms[i]
     /\ (/\ ShadowedArms = 1..Len(call.node.arms)
         /\ \A t \in 1..Len(call.node.types) :
               ~references_param("Type", call.node.types[t], call.param))
        => (ret.ok /\ ~ret.occurred)

(* C3 as claimed: occurrences of the parameter in the parameter list that  *)
(* shadows it (the bounds of the list) are still substituted, so after a   *)
(* successful substitution that list no longer references the parameter.   *)
C3_ShadowingListBoundsSubstituted ==
  (Done("substitute") /\ IsMatchCall /\ KindCorrect /\ ret.ok)
  => \A ij \in ShadowingSelectors :
        ~references_param("Generics", ret.n.arms[ij[1]].sels[ij[2]].generics,
                          call.param)

(* C3 as amended: a parameter list that shadows the parameter is left      *)
(* entirely unchanged; occurrences of the parameter in its bounds,         *)
(* including the bounds of the shadowing parameter itself, are not         *)
(* substituted.                                                            *)
C3_ShadowingListUntouched ==
  (Done("substitute") /\ IsMatchCall)
  => \A ij \in ShadowingSelectors :
        ret.n.arms[ij[1]].sels[ij[2]].generics
          = call.node.arms[ij[1]].sels[ij[2]].generics

\* a shadowing list whose bounds mention the parameter went through a
\* successful substitution that did replace something elsewhere
C3_Witness ==
  /\ Done("substitute") /\ IsMatchCall /\ KindCorrect
  /\ ret.ok /\ ret.occurred
  /\ \E ij \in ShadowingSelectors :
        references_param("Generics", call.node.arms[ij[1]].sels[ij[2]].generics,
                         call.param)

(* C4: when the node references the parameter and the argument's kind      *)
(* differs from the parameter's kind, substitute returns Err.              *)
C4_KindMismatchIsError ==
  (Done("substitute") /\ ~KindCorrect
     /\ references_param(call.kind, call.node, call.param))
  => ~ret.ok

\* a lifetime argument for a type parameter that occurs in an arm body
C4_Witness ==
  /\ Done("substitute") /\ IsMatchCall
  /\ call.param.k = "Type" /\ ArgKind(call.arg) = "Lifetime"
  /\ \E i \in 1..Len(call.node.arms) :
        /\ i \notin ShadowedArms
        /\ references_param(call.kind, call.node.arms[i].body, call.param)
  /\ ~ret.ok

\* number of occurrences of param the test-only traversal finds in node
RefCount(kind, node, param) ==
  Len(get_param_references(kind, node, param).spans)

\* occurrences of param in the bounds of all parameter lists of an arm
RECURSIVE RefCountInSelectors(_, _, _)
RefCountInSelectors(sels, n, param) ==
  IF n = 0 THEN 0
  ELSE RefCountInSelectors(sels, n - 1, param)
       + (IF IsSpecific(sels[n])
          THEN RefCount("Generics", sels[n].generics, param) ELSE 0)

\* the positions <<arm, selector, parameter>> of the parameters declared by
\* the arms that do not shadow the substituted parameter
SelectorParams(i, j) ==
  IF IsSpecific(call.node.arms[i].sels[j])
  THEN {<<i, j, k>> : k \in 1..Len(call.node.arms[i].sels[j].generics.params)}
  ELSE {}

UnshadowedArmParams ==
  UNION {UNION {SelectorParams(i, j) : j \in 1..Len(call.node.arms[i].sels)} :
         i \in (1..Len(call.node.arms)) \ ShadowedArms}

ArmParam(m, ijk) ==
  m.arms[ijk[1]].sels[ijk[2]].generics.params[ijk[3]]

(* C5: in an arm that does not shadow the parameter, an arm parameter q    *)
(* that conflicts with the argument is renamed to a name that does not,    *)
(* and every reference to q in the arm's bounds and body is a reference to *)
(* the new name afterwards (as many references to the new name as there    *)
(* were to q).                                                             *)
C5_CaptureAvoidingRename ==
  (Done("substitute") /\ IsMatchCall /\ KindCorrect /\ ret.ok)
  => \A ijk \in UnshadowedArmParams :
       LET q == ArmParam(call.node, ijk)
           q2 == ArmParam(ret.n, ijk)
           arm == call.node.arms[ijk[1]]
           arm2 == ret.n.arms[ijk[1]]
       IN conflicting(arg_conflict_pred(call.arg), q)
          => /\ ~conflicting(arg_conflict_pred(call.arg), q2)
             /\ RefCount(call.kind, arm2.body, q2) = RefCount(call.kind, arm.body, q)
             /\ RefCountInSelectors(arm2.sels, Len(arm2.sels), q2)
                  = RefCountInSelectors(arm.sels, Len(arm.sels), q)

(* C6: after rename_conflicting_params returns Ok, no parameter of the     *)
(* list satisfies the predicate, no occurrence of the old name of a        *)
(* renamed parameter is left in the bounds of the list or in the rewritten *)
(* body, parameters that did not conflict keep their names, and the        *)
(* returned boolean tells whether a parameter was renamed.                 *)
C6_RenameRoundTrip ==
  (Done("rename_conflicting_params") /\ ret.ok)
  => LET before == call.generics.params
         after == ret.generics.params
     IN /\ Len(after) = Len(before)
        /\ \A i \in 1..Len(before) :
             /\ ~conflicting(call.pred, after[i])
             /\ conflicting(call.pred, before[i])
                => /\ ~references_param("Generics", ret.generics, before[i])
                   /\ ~references_param(call.E, ret.body, before[i])
             /\ ~conflicting(call.pred, before[i]) => after[i].id = before[i].id
        /\ ret.renamed <=> \E i \in 1..Len(before) : conflicting(call.pred, before[i])

\* the expression a const argument stands for
ArgExpr(arg) ==
  IF arg.k = "Param" THEN EId(arg.p.id) ELSE arg.a.ex

IsConstExprCall ==
  /\ call.op = "substitute"
  /\ call.kind = "Expr"
  /\ call.param.k = "Const"
  /\ KindCorrect

(* C7 as claimed: a const parameter substituted into an expression that is *)
(* not its bare name gives the block  { let A: ty = arg; expr }  around    *)
(* the unchanged expression; the bare name is replaced by the argument.    *)
C7_LetBlockUnlessBareName ==
  (pc = "done" /\ IsConstExprCall)
  => IF call.node = EId(call.param.id)
     THEN ret.ok /\ ret.n = ArgExpr(call.arg)
     ELSE ret.ok /\ ret.n = EBlock(call.param.id, call.param.ty,
                                   ArgExpr(call.arg), call.node)

(* C7 as amended: an expression that is not a path expression becomes the  *)
(* block  { let A: ty = arg; expr }  around the unchanged expression, the  *)
(* argument appearing once; a path expression is never wrapped: the bare   *)
(* name A is replaced by the argument and any other path stays a path.     *)
C7_LetBlockForNonPath ==
  (pc = "done" /\ IsConstExprCall)
  => IF call.node.k # "EPath"
     THEN /\ ret.ok /\ ret.occurred
          /\ ret.n = EBlock(call.param.id, call.param.ty,
                            ArgExpr(call.arg), call.node)
     ELSE /\ ret.ok
          /\ IF call.node = EId(call.param.id)
             THEN ret.n = ArgExpr(call.arg)
             ELSE ret.n.k = "EPath"

\* an expression with two occurrences of the parameter was wrapped
C7_Witness ==
  /\ pc = "done" /\ IsConstExprCall
  /\ call.node.k = "ECall"
  /\ RefCount("Expr", call.node, call.param) >= 2
  /\ ret.n.k = "EBlock"

\* id occurs in a type or expression as a whole type or as the first
\* segment, without generic arguments, of a path with no leading colon and
\* no qualified self, at any depth of generic arguments
RECURSIVE TypeNameOccurs(_, _)
TypeNameOccurs(node, id) ==
  CASE node.k \in {"TPath", "EPath"} ->
         \/ /\ node.qself = <<>> /\ ~node.lead
            /\ node.segs[1].id = id /\ node.segs[1].args = <<>>
         \/ \E q \in 1..Len(node.qself) : TypeNameOccurs(node.qself[q], id)
         \/ \E i \in 1..Len(node.segs) : \E j \in 1..Len(node.segs[i].args) :
               TypeNameOccurs(node.segs[i].args[j], id)
    [] node.k = "GType" -> TypeNameOccurs(node.ty, id)
    [] node.k = "GConst" -> TypeNameOccurs(node.ex, id)
    [] node.k = "TTuple" ->
         \E i \in 1..Len(node.elems) : TypeNameOccurs(node.elems[i], id)
    [] node.k = "ECall" ->
         \/ TypeNameOccurs(node.func, id)
         \/ \E i \in 1..Len(node.args) : TypeNameOccurs(node.args[i], id)
    [] node.k = "EBin" -> TypeNameOccurs(node.l, id) \/ TypeNameOccurs(node.r, id)
    [] node.k = "EBlock" ->
         \/ TypeNameOccurs(node.ty, id)
         \/ TypeNameOccurs(node.init, id)
         \/ TypeNameOccurs(node.body, id)
    [] OTHER -> FALSE

\* a path of bare segments (no generic arguments, no qualified self)
IsBarePath(node) ==
  /\ node.k \in {"TPath", "EPath"}
  /\ node.qself = <<>>
  /\ \A i \in 1..Len(node.segs) : node.segs[i].args = <<>>

(* C8: substituting type parameter A by type parameter X replaces A at     *)
(* every whole-type and first-segment occurrence, at every depth of        *)
(* generic arguments, so none is left afterwards; a node without such an   *)
(* occurrence (B::A, ::A) is unchanged; for a const parameter a            *)
(* multi-segment path A::B is not an occurrence.                           *)
C8_EveryOccurrenceReplaced ==
  (Done("substitute") /\ call.kind \in {"Type", "Expr"})
  => /\ (/\ call.param.k = "Type"
         /\ call.arg.k = "Param" /\ call.arg.p.k = "Type"
         /\ call.arg.p.id # call.param.id)
        => /\ ret.ok
           /\ ~TypeNameOccurs(ret.n, call.param.id)
           /\ ~TypeNameOccurs(call.node, call.param.id)
              => (ret.n = call.node /\ ~ret.occurred)
     /\ (/\ call.param.k = "Const" /\ KindCorrect
         /\ IsBarePath(call.node) /\ Len(call.node.segs) >= 2)
        => (ret.ok /\ ret.n = call.node /\ ~ret.occurred)

IsTypeArgCall ==
  /\ call.op = "substitute"
  /\ call.kind \in {"Type", "Expr"}
  /\ call.param.k = "Type"
  /\ call.arg.k = "Arg" /\ call.arg.a.k = "GType"

\* the node is a path  A::S1::...::Sn  that starts with the parameter
StartsWithParam ==
  /\ call.node.k \in {"TPath", "EPath"}
  /\ call.node.qself = <<>> /\ ~call.node.lead
  /\ call.node.segs[1] = Seg(call.param.id, <<>>)

ContextParams ==
  UNION {{<<i, j>> : j \in 1..Len(ScopeParams(call.context[i]))} :
         i \in 1..Len(call.context)}

ContextParam(sj) ==
  ScopeParams(call.context[sj[1]])[sj[2]]

\* shadowed by a parameter of a strictly inner scope
Shadowed(sj) ==
  \E in \in ContextParams :
     in[1] < sj[1] /\ param_name_conflict(ContextParam(sj), ContextParam(in))

\* the least set of unshadowed parameters that holds those the expression
\* references and those the bounds of another member (of the same or a
\* more inner scope) reference
RECURSIVE CapturedClosure(_)
CapturedClosure(C) ==
  LET more == {sj \in ContextParams \ C :
                 /\ ~Shadowed(sj)
                 /\ \E c \in C :
                      /\ c[1] <= sj[1]
                      /\ references_param("GenericParam", ContextParam(c),
                                          ContextParam(sj))}
  IN IF more = {} THEN C ELSE CapturedClosure(C \cup more)

TransitivelyReferenced ==
  CapturedClosure({sj \in ContextParams :
                     /\ ~Shadowed(sj)
                     /\ references_param(call.E, call.expr, ContextParam(sj))})

(* C10: the list build_indirection returns has a pair for an outer         *)
(* parameter exactly when the parameter is not shadowed by a strictly      *)
(* inner scope and the expression references it, directly or through the  *)
(* bounds of another captured parameter.                                   *)
C10_ExactlyTransitivelyReferenced ==
  (Done("build_indirection") /\ ret.ok)
  => {ret.params[i].arg : i \in 1..Len(ret.params)}
       = {generic_param_arg(ContextParam(sj)) : sj \in TransitivelyReferenced}

\* no two parameters of the context have conflicting names
DistinctContextNames ==
  \A c1 \in ContextParams : \A c2 \in ContextParams :
     c1 # c2 => ~param_name_conflict(ContextParam(c1), ContextParam(c2))

(* C11: for a scope chain whose parameters have pairwise distinct names,   *)
(* no two parameters of the list build_indirection returns conflict in     *)
(* name, also when the chain has a self-parameter scope whose captured     *)
(* parameter was renamed with an underscore suffix.                        *)
C11_ReturnedParamsConflictFree ==
  (Done("build_indirection") /\ ret.ok /\ DistinctContextNames)
  => \A i \in 1..Len(ret.params) : \A j \in 1..Len(ret.params) :
        i # j => ~param_name_conflict(ret.params[i].param, ret.params[j].param)

\* the scope of the chain (1 = innermost) that declares the unshadowed
\* parameter a returned pair's argument names
OriginScope(arg) ==
  CHOOSE n \in 1..Len(call.context) :
     \E sj \in ContextParams :
        /\ sj[1] = n /\ ~Shadowed(sj)
        /\ generic_param_arg(ContextParam(sj)) = arg

(* C12: in the list build_indirection returns, a parameter captured from   *)
(* an inner scope comes before every parameter captured from a more        *)
(* outward scope.                                                          *)
C12_InnermostFirst ==
  (Done("build_indirection") /\ ret.ok)
  => \A i \in 1..Len(ret.params) : \A j \in 1..Len(ret.params) :
        i < j => OriginScope(ret.params[i].arg) <= OriginScope(ret.params[j].arg)

\* the positions of the context's type and const parameters named
\* param_ident
Declarations ==
  {sj \in ContextParams :
     /\ ContextParam(sj).k # "Lifetime"
     /\ ContextParam(sj).id = call.param_ident}

\* the declarations of param_ident in the innermost scope that has one
InnermostDeclarations ==
  {sj \in Declarations : \A d \in Declarations : sj[1] <= d[1]}

\* the number of references to the type parameter named id in expr
TypeRefCount(expr, id) ==
  Len(get_param_references(call.E, expr, TypeParam(id, <<>>)).spans)

(* C13: isolate_type_param returns the type parameter named T of the       *)
(* innermost scope that declares T, with its bounds, has no pair for it in *)
(* the returned list, and leaves every reference of expr to T as a         *)
(* reference to Self; it returns an error when no scope declares T and     *)
(* when the innermost declaration of T is a const parameter.               *)
C13_IsolateTypeParam ==
  Done("isolate_type_param")
  => /\ Declarations = {} => ~ret.ok
     /\ (\E sj \in InnermostDeclarations : ContextParam(sj).k = "Const")
          => ~ret.ok
     /\ ret.ok
          => /\ \E sj \in InnermostDeclarations :
                   ret.type_param = ContextParam(sj)
             /\ \A i \in 1..Len(ret.params) :
                   ret.params[i].arg # generic_param_arg(ret.type_param)
             /\ call.param_ident # "Self"
                  => TypeRefCount(ret.expr, call.param_ident) = 0
             /\ TypeRefCount(ret.expr, "Self")
                  >= TypeRefCount(call.expr, call.param_ident)

ParamKinds(generics) ==
  [i \in 1..Len(generics.params) |-> generics.params[i].k]

(* C14: rename_all_params returns Ok exactly when the list and the target  *)
(* have the same length and the same kind at every position, and then      *)
(* every parameter of the list has the name of the target's parameter at   *)
(* its position; a longer list, a longer target and a kind mismatch are    *)
(* errors.                                                                 *)
C14_RenameAllParams ==
  Done("rename_all_params")
  => /\ ret.ok <=> ParamKinds(call.generics) = ParamKinds(call.target_generics)
     /\ ret.ok => \A i \in 1..Len(ret.generics.params) :
                     ret.generics.params[i].id = call.target_generics.params[i].id
     /\ Len(call.generics.params) > Len(call.target_generics.params)
          => ~ret.ok
     /\ Len(call.generics.params) < Len(call.target_generics.params)
          => ~ret.ok

\* a list whose names all conflict with the target's was renamed to it
C14_Witness ==
  /\ Done("rename_all_params")
  /\ ret.ok
  /\ Len(call.generics.params) = 2
  /\ call.generics.params[1].id = call.target_generics.params[2].id
  /\ call.generics.params[2].id = call.target_generics.params[1].id
  /\ ret.generics.params[1].id = call.target_generics.params[1].id

\* a target with more parameters than the list was rejected
C14_WitnessSuperfluous ==
  /\ Done("rename_all_params")
  /\ ~ret.ok /\ ret.err = "superfluous parameter"

\* the number of arguments of a substitute_all / substitute_all_params call
ArgCount ==
  IF call.op = "substitute_all" THEN Len(call.args)
  ELSE Len(call.args_generics.params)

DoneSubstituteAll ==
  Done("substitute_all") \/ Done("substitute_all_params")

LeadingKindsAgree ==
  \A i \in 1..Len(call.generics.params) :
     i <= ArgCount
     => call.generics.params[i].k
          = IF call.op = "substitute_all"
            THEN ArgKind(ArgArg(call.args[i]))
            ELSE call.args_generics.params[i].k

BareReference(param, arg) ==
  IF param.k = "Lifetime"
  THEN arg.k = "GLife" /\ arg.id = param.id
  ELSE arg.k = "GType" /\ arg.ty = TId(param.id)

\* the declarations of the input
InputTraitDefs ==
  {call.items[i] : i \in {j \in 1..Len(call.items) : call.items[j].k = "TraitDef"}}

\* the names under which the table holds a declaration, in table order
EntryKeys(table) ==
  LET defs == SelectSeq(table, LAMBDA e : e.k = "TraitDef")
  IN [i \in 1..Len(defs) |-> defs[i].trait_def.ident]

\* every declaration of the input has its entry in the table
AllRegistered ==
  \A d \in InputTraitDefs :
     \E i \in 1..Len(result) :
        result[i].k = "TraitDef" /\ result[i].trait_def = d

\* the item names of the impl blocks that target ident, in input order
ImplItemNames(ident) ==
  UNION {{call.items[i].items[j].ident : j \in 1..Len(call.items[i].items)} :
         i \in {n \in 1..Len(call.items) :
                  /\ call.items[n].k = "TraitImpl"
                  /\ call.items[n].segments = <<ident>>}}

(* C18: while the second pass of MetaItemList::output runs, every          *)
(* declaration of the input is registered; no step of the second pass      *)
(* changes the keys of the registered entries; and when output succeeds,   *)
(* every item of every impl block is in the entry of its target, wherever  *)
(* the impl block stands in the input.                                     *)
C18_DeclarationsRegisteredFirst ==
  /\ [](pc \in {"second", "validate"} => AllRegistered)
  /\ [][pc = "second" => EntryKeys(result') = EntryKeys(result)]_vars
  /\ []((Done("output") /\ ret.ok)
        => \A d \in InputTraitDefs :
              {result[trait_def_item(result, d.ident)].impl_items[j] :
                 j \in 1..Len(result[trait_def_item(result, d.ident)].impl_items)}
                = ImplItemNames(d.ident))

\* an impl block that stands before its target in the input was merged
\* into the target's entry
C18_Witness ==
  /\ Done("output") /\ ret.ok
  /\ Len(call.items) >= 2
  /\ call.items[1].k = "TraitImpl"
  /\ call.items[2].k = "TraitDef"
  /\ call.items[1].segments = <<call.items[2].ident>>
  /\ result[trait_def_item(result, call.items[2].ident)].impl_items # <<>>

\* a match expression of some item of the input dispatches on ident
MatchPerformed(ident) ==
  \E i \in 1..Len(call.items) :
     \/ call.items[i].k \in {"Type", "Fn"} /\ ident \in call.items[i].matches
     \/ /\ call.items[i].k = "TraitImpl"
        /\ \E j \in 1..Len(call.items[i].items) :
              ident \in call.items[i].items[j].matches

\* a where clause, or an alias whose path has a complex argument
RequiresDispatch(d) ==
  \/ d.where_clause
  \/ d.contents.k = "Alias" /\ d.contents.complex_arg

MissingDispatchErrors ==
  {"at least one match expression corresponding to where clause required",
   "at least one match expression corresponding to alias arguments required"}

C20_ImplArgsMirrorParams ==
  (Done("check_trait_impl_args") /\ ret.ok)
  => /\ Len(call.impl_item_args.args) = Len(call.impl_item_generics.params)
     /\ \A i \in 1..Len(call.impl_item_generics.params) :
           BareReference(call.impl_item_generics.params[i],
                         call.impl_item_args.args[i])

(* C16: param_name_conflict is true exactly when the names are equal and   *)
(* the parameters are both lifetimes or are each a type or const           *)
(* parameter; it is symmetric.                                             *)
C16_NameConflictByNamespace ==
  Done("param_name_conflict")
  => /\ ret.conflict
          <=> /\ call.param1.id = call.param2.id
              /\ (call.param1.k = "Lifetime") <=> (call.param2.k = "Lifetime")
     /\ ret.conflict = param_name_conflict(call.param2, call.param1)

\* a lifetime and a type parameter of the same name were compared
C16_Witness ==
  /\ Done("param_name_conflict")
  /\ call.param1.k = "Lifetime" /\ call.param2.k = "Type"
  /\ call.param1.id = call.param2.id
  /\ ~ret.conflict

(* C17: the test-only mode leaves the node identical and returns Ok, for   *)
(* every node and every parameter.                                         *)
C17_TestOnlyLeavesNode ==
  Done("get_param_references")
  => (ret.ok /\ ret.n = call.node)

\* a traversal that found occurrences of the parameter left the node alone
C17_Witness ==
  /\ Done("get_param_references")
  /\ ret.ok /\ Len(ret.spans) >= 2
  /\ ret.n = call.node

\* the argument of a substitute call references the substituted parameter
ArgReferencesParam ==
  IF call.arg.k = "Param" THEN param_name_conflict(call.arg.p, call.param)
  ELSE references_param("GenericArgument", call.arg.a, call.param)

(* C24: for every node and parameter, references_param is true exactly     *)
(* when substitute with an argument of the parameter's kind returns        *)
(* Ok(true).                                                               *)
C24_TestOnlyAgreesWithSubstitute ==
  (Done("substitute") /\ KindCorrect)
  => (references_param(call.kind, call.node, call.param)
        <=> (ret.ok /\ ret.occurred))

(* C27: after substitute returned Ok for an argument that does not         *)
(* reference the parameter, the node does not reference the parameter, and *)
(* substituting the parameter again returns Ok(false) and leaves the node  *)
(* unchanged.                                                              *)
C27_SubstitutionEliminatesParam ==
  (Done("substitute") /\ ret.ok /\ ~ArgReferencesParam)
  => /\ ~references_param(call.kind, ret.n, call.param)
     /\ substitute(call.kind, ret.n, call.param, call.arg)
          = [n |-> ret.n, ok |-> TRUE, occurred |-> FALSE, err |-> ""]

\* no two parameters of a parameter list have conflicting names
PairwiseDistinct(generics) ==
  \A i \in 1..Len(generics.params) : \A j \in 1..Len(generics.params) :
     i # j => ~param_name_conflict(generics.params[i], generics.params[j])

(* C25: when the parameters of a list are pairwise non-conflicting before  *)
(* rename_conflicting_params or add_underscores_to_all_params, they are    *)
(* pairwise non-conflicting after a successful call.                       *)
C25_RenamingPreservesDistinctness ==
  ((Done("rename_conflicting_params") \/ Done("add_underscores_to_all_params"))
   /\ ret.ok /\ PairwiseDistinct(call.generics))
  => PairwiseDistinct(ret.generics)

(* C28: in a match arm with several selectors that does not shadow the     *)
(* substituted parameter, when a parameter q declared by one selector is   *)
(* renamed because it conflicts with the argument, every reference to q in *)
(* the arm is a reference to the new name afterwards: in the body and in   *)
(* the bounds of every selector of the arm, the declaring one and the      *)
(* others (stated for a new name that the arm did not mention before).     *)
C28_RenameReachesAllSelectors ==
  (Done("substitute") /\ IsMatchCall /\ KindCorrect /\ ret.ok)
  => \A ijk \in UnshadowedArmParams :
       LET q == ArmParam(call.node, ijk)
           q2 == ArmParam(ret.n, ijk)
           arm == call.node.arms[ijk[1]]
           arm2 == ret.n.arms[ijk[1]]
       IN (/\ Len(arm.sels) > 1
           /\ q2.id # q.id
           /\ RefCount(call.kind, arm.body, q2) = 0
           /\ RefCountInSelectors(arm.sels, Len(arm.sels), q2) = 0)
          => /\ RefCount(call.kind, arm2.body, q2) = RefCount(call.kind, arm.body, q)
             /\ \A j \in 1..Len(arm.sels) :
                   IsSpecific(arm.sels[j])
                   => RefCount("Generics", arm2.sels[j].generics, q2)
                        = RefCount("Generics", arm.sels[j].generics, q)

(* C22: build_indirection and isolate_type_param return on every           *)
(* expression and scope chain: the recursion of get_first_param_reference, *)
(* which follows the bounds of the parameters, never re-enters a call that *)
(* is still active.                                                        *)
C22_IndirectionTerminates ==
  (Done("build_indirection") \/ Done("isolate_type_param")) => ~ret.overflow

\* the returned list has a pair for the unshadowed context parameter sj
Captured(sj) ==
  /\ ~Shadowed(sj)
  /\ \E i \in 1..Len(ret.params) :
        ret.params[i].arg = generic_param_arg(ContextParam(sj))

\* the position of that pair in the returned list
CapturedIndex(sj) ==
  CHOOSE i \in 1..Len(ret.params) :
     ret.params[i].arg = generic_param_arg(ContextParam(sj))

\* the bound list of the parameter at p, declared in the scope of the
\* parameter at q or in a more inner one and not name-conflicting with it,
\* references the parameter at q
BoundsReference(p, q) ==
  /\ p[1] <= q[1]
  /\ ~param_name_conflict(ContextParam(p), ContextParam(q))
  /\ references_param("GenericParam", ContextParam(p), ContextParam(q))

\* a visible outer parameter the bounds of a captured parameter reference
\* is captured
C23_CapturedThroughBounds ==
  (Done("build_indirection") /\ ret.ok)
  => \A p \in ContextParams : \A q \in ContextParams :
        (Captured(p) /\ ~Shadowed(q) /\ BoundsReference(p, q)) => Captured(q)

\* and, when the expression does not reference it, precedes the parameter
\* whose bounds reference it
C23_DependencyFirst ==
  (Done("build_indirection") /\ ret.ok)
  => \A p \in ContextParams : \A q \in ContextParams :
        (/\ Captured(p) /\ Captured(q) /\ BoundsReference(p, q)
         /\ ~references_param(call.E, call.expr, ContextParam(q)))
        => CapturedIndex(q) < CapturedIndex(p)

\* a parameter the expression does not reference is captured only through
\* the bounds of a captured parameter
C23_OnlyThroughCaptured ==
  (Done("build_indirection") /\ ret.ok)
  => \A q \in ContextParams :
        (Captured(q) /\ ~references_param(call.E, call.expr, ContextParam(q)))
        => \E p \in ContextParams : Captured(p) /\ BoundsReference(p, q)

(* C23: in closure conversion an outer parameter Q that the expression     *)
(* does not reference is captured when the bounds of a captured parameter  *)
(* P (of the same or a more inner scope, not name-conflicting with Q)      *)
(* reference Q, Q then comes before P in the returned list, and Q is not   *)
(* captured when only parameters that are not captured mention it.         *)
C23_TransitiveCapture ==
  /\ C23_CapturedThroughBounds
  /\ C23_DependencyFirst
  /\ C23_OnlyThroughCaptured

\* the positions of the parameters of kind k named id in a parameter list
ParamPositions(generics, k, id) ==
  {i \in 1..Len(generics.params) :
     generics.params[i].k = k /\ generics.params[i].id = id}

\* the name that stands for the name id of kind k after the simultaneous
\* replacement of the parameters of generics by those of args
SimultaneousName(generics, args, k, id) ==
  IF ParamPositions(generics, k, id) = {} THEN id
  ELSE args.params[CHOOSE i \in ParamPositions(generics, k, id) : TRUE].id

\* a type in which every occurrence of a type or lifetime parameter of
\* generics is replaced, in one pass, by the parameter of args at the same
\* position
RECURSIVE SimultaneousType(_, _, _)
SimultaneousArg(arg, generics, args) ==
  CASE arg.k = "GType" -> GType(SimultaneousType(arg.ty, generics, args))
    [] arg.k = "GLife" -> GLife(SimultaneousName(generics, args, "Lifetime", arg.id))
    [] OTHER -> arg

SimultaneousType(ty, generics, args) ==
  CASE ty.k = "TTuple" ->
         TTuple([i \in 1..Len(ty.elems) |->
                   SimultaneousType(ty.elems[i], generics, args)])
    [] ty.k = "TPath" ->
         TPath(ty.qself, ty.lead,
               [j \in 1..Len(ty.segs) |->
                  Seg(IF j = 1 /\ ty.segs[j].args = <<>>
                         /\ ty.qself = <<>> /\ ~ty.lead
                      THEN SimultaneousName(generics, args, "Type", ty.segs[j].id)
                      ELSE ty.segs[j].id,
                      [n \in 1..Len(ty.segs[j].args) |->
                         SimultaneousArg(ty.segs[j].args[n], generics, args)])])
    [] OTHER -> ty

(* C26: for parameter lists of equal length and matching kinds,            *)
(* substitute_all_params replaces every occurrence of the i-th parameter   *)
(* of generics by the i-th parameter of args as one simultaneous           *)
(* substitution: the node it leaves is the node in which each name was     *)
(* replaced once, also when args permutes the names of generics or shares  *)
(* names with it.                                                          *)
C26_SimultaneousSubstitution ==
  (/\ Done("substitute_all_params")
   /\ ParamKinds(call.generics) = ParamKinds(call.args_generics)
   /\ ret.ok)
  => ret.n = SimultaneousType(call.node, call.generics, call.args_generics)

\* the isolated parameter, as the name the references are tested against
IsolatedName ==
  TypeParam(call.param_ident, <<>>)

\* the expression returned by isolate_type_param has no reference to T
C29_ExprFreeOfIsolated ==
  (Done("isolate_type_param") /\ ret.ok /\ call.param_ident # "Self")
  => ~references_param(call.E, ret.expr, IsolatedName)

\* no parameter of the returned list has a bound that references T
C29_BoundsFreeOfIsolated ==
  (Done("isolate_type_param") /\ ret.ok /\ call.param_ident # "Self")
  => \A i \in 1..Len(ret.params) :
        ~references_param("GenericParam", ret.params[i].param, IsolatedName)

(* C29: after isolate_type_param succeeded for T, nothing it returns       *)
(* refers to T by its original name except the returned parameter: the     *)
(* expression has no reference to T, and no parameter of the returned list *)
(* has a bound that references T.                                          *)
C29_IsolatedNameGone ==
  C29_ExprFreeOfIsolated /\ C29_BoundsFreeOfIsolated

\* the loop run step by step returns what the operator computes
LoopAgreesWithOperator ==
  (pc = "done" /\ call.op = "add_underscores_if_conflicting")
  => ret = add_underscores_if_conflicting(call.param, call.pred)

(* C21: the renaming loop terminates: add_underscores_if_conflicting       *)
(* returns after finitely many attempts, each attempt makes the name one   *)
(* character longer, and the parameter it returns does not satisfy the     *)
(* conflict predicate.                                                     *)
C21_RenamingLoopTerminates ==
  /\ <>(pc = "done")
  /\ [][pc = "loop" => Len(ret'.param.id) = Len(ret.param.id) + 1]_vars
  /\ [](pc = "done" => ~conflicting(call.pred, ret.param))

\* a parameter that needed three attempts has been returned
C21_Witness ==
  /\ pc = "done" /\ call.op = "add_underscores_if_conflicting"
  /\ ret.some
  /\ Len(ret.param.id) = Len(call.param.id) + 3
  /\ ~conflicting(call.pred, ret.param)

(* C30: after any sequence of add_path_to_dependencies,                    *)
(* add_ident_to_dependencies, collect_dependencies_in_generics and         *)
(* collect_dependencies_in_bounds calls for a declaration, starting from   *)
(* an empty list, the list of dependent identifiers holds no identifier    *)
(* twice and never the declaration's own identifier, and no call changes a *)
(* part identity that is set.                                              *)
C30_DependenciesWellFormed ==
  /\ [](\A i \in 1..Len(ret.dependent_idents) :
          /\ ret.dependent_idents[i] # call.trait_def.ident
          /\ \A j \in 1..Len(ret.dependent_idents) :
                i # j => ret.dependent_idents[i] # ret.dependent_idents[j])
  /\ [][ret.part_ident # <<>> => ret'.part_ident = ret.part_ident]_vars

\* three dependencies have been collected for an alias declaration and the
\* part identity has been set by a bound on the declaration's own name
C30_Witness ==
  /\ pc = "collect"
  /\ call.trait_def.contents.k = "Alias"
  /\ call.part_ident = <<>>
  /\ ret.part_ident = <<self_type_ident>>
  /\ Len(ret.dependent_idents) = 3

==========================================================================
